---- MODULE Spec2Model ----
(***************************************************************************)
(* kotoba: natural-language browser test tool.                             *)
(*                                                                         *)
(* The model follows one invocation of the command line entry point        *)
(* (__main__.main): it selects a runner (standard, optimized, robust),     *)
(* the runner loads test files, drives the browser session manager and     *)
(* records step, case and suite results, and main turns the summaries into *)
(* the process exit code.  Everything outside the repository (the browser  *)
(* engine, the file system, the language model, the user at the keyboard)  *)
(* is an environment whose answers are chosen with \E at the call that     *)
(* asks for them.  The content of a test file is revealed in the same way: *)
(* the number of cases when the file is loaded, the number of steps when a *)
(* case is entered, the step itself when the loop reaches it.              *)
(***************************************************************************)
EXTENDS Integers, Sequences, FiniteSets, TLC

\* ------------------------------------------------------------------ bounds
MaxFiles == 2
MaxCases == 2
MaxSteps == 2

\* ------------------------------------------------------- values of the code
None == "None"

\* Instructions a step can carry, as sequences of tokens (the tokens are
\* listed with AssertionPatternMatcher).  <<>> is the empty or missing
\* instruction; the assertion instruction is
\* 「ログイン」が表示されていることを確認する, the action instruction is
\* ログインボタンをクリックする.
AssertionInstructions ==
    {<<"lb", "login", "rb", "ga", "hyoji_sarete", "iru", "koto", "wo",
       "kakunin", "suru">>}
ActionInstructions == {<<"login", "botan", "wo", "kurikku", "suru">>}
Instructions == {<<>>} \cup AssertionInstructions \cup ActionInstructions

\* str.lower() of a word.
lower(word) ==
    IF word = "Click" THEN "click"
    ELSE IF word = "Select" THEN "select"
    ELSE IF word = "Back" THEN "back"
    ELSE IF word = "EXIT" THEN "exit"
    ELSE IF word = "Quit" THEN "quit"
    ELSE IF word = ".JSON" THEN ".json"
    ELSE IF word = ".YAML" THEN ".yaml"
    ELSE IF word = ".Yml" THEN ".yml"
    ELSE word

\* A line typed at the prompt of the interactive session: an instruction,
\* a word that ends the session, or blanks ("sp").
Lines ==
    Instructions \cup {<<"exit">>, <<"EXIT">>, <<"quit">>, <<"Quit">>,
                       <<"sp">>, <<"sp", "quit", "sp">>}

\* str.strip() of a line.
RECURSIVE str_strip(_)
str_strip(line) ==
    IF line # <<>> /\ Head(line) = "sp" THEN str_strip(Tail(line))
    ELSE IF line # <<>> /\ line[Len(line)] = "sp"
    THEN str_strip(SubSeq(line, 1, Len(line) - 1))
    ELSE line

\* action_type values the translator can answer with; "unknown" is the
\* fallback's type, which execute_action does not recognize.
RecognizedActionTypes == {"click"}
ActionTypes == RecognizedActionTypes \cup {"unknown"}

\* A step of a test file: a mapping with an instruction, or (a malformed
\* file) something that is no mapping and has no .get.
Steps ==
    {[is_dict |-> TRUE, instruction |-> i] : i \in Instructions}
        \cup {[is_dict |-> FALSE, instruction |-> <<>>]}

\* A test case of a test file: a mapping with or without a "name" key and
\* with nsteps steps, or something that is no mapping.
TestCases ==
    {[is_dict |-> TRUE, named |-> n, nsteps |-> k] :
        n \in BOOLEAN, k \in 0..MaxSteps}
        \cup {[is_dict |-> FALSE, named |-> FALSE, nsteps |-> 0]}

\* The content of a loaded test file: the length of its test_cases list
\* (whether it sets base_url is asked when the suite starts).
TestData == [ncases : 0..MaxCases]

\* Exception messages (str(e)) that end up in results.
NoInstruction == "No instruction provided"
EngineError == "Element not found"
AssertionFailed == "assertion failed"
\* f"Action timed out: {action}"
TimedOut(action) ==
    IF action = "click" THEN "Action timed out: click"
    ELSE "Action timed out: unknown"
PageClosed == "Page is closed or unavailable"
NotAMapping == "object has no attribute 'get'"
KeyErrorName == "'name'"

\* The fallback path of _take_failure_screenshot.
ScreenshotFailed == "screenshot_failed.png"

\* Resources of the browser session besides pages, in acquisition order.
SessionResources == <<"playwright", "browser", "context">>

VARIABLES
    \* main's test_file_paths (its length), the configuration, and the
    \* command line's robust and optimized flags
    nFiles, screenshot_on_failure, flags,
    \* control
    pc, runner,
    \* main
    returned, all_tests_passed, exit_code, top_exc, exc,
    \* run_test_files_batch
    fileIdx, batch_results, browser_started,
    \* _execute_test_suite*
    test_data, results,
    \* _execute_test_case*, _execute_step*
    test_case, case_result, step_result, calls, outcome,
    \* BrowserManager
    bm, starts, closes,
    \* _run_single_test_robust's locals, and the action wait_for is racing
    page, original_page, pending,
    \* the runners' self.assertion_pattern_matcher: what its parse() returns
    \* for each instruction of the test files and of the interactive session
    assertion_pattern_matcher,
    \* _interactive_session: the line read last, what its execution printed
    \* as an error, and how the loop was left
    interactive,
    \* a call of a function of the package on its own: its argument, what
    \* it returned, and the configuration file on disk
    arg, ret, file

config == <<nFiles, screenshot_on_failure>>
inputs == <<config, flags>>
mainv == <<returned, all_tests_passed, exit_code, top_exc, exc>>
batchv == <<fileIdx, batch_results, browser_started>>
suitev == <<test_data, results>>
casev == <<test_case, case_result, step_result, calls, outcome>>
browserv == <<bm, starts, closes>>
robustv == <<page, original_page, pending>>
libv == <<assertion_pattern_matcher, interactive, arg, ret, file>>

vars ==
    <<inputs, pc, runner, mainv, batchv, suitev, casev, browserv, robustv,
      libv>>

\* ------------------------------------------------------- BrowserManager
\* bm.page: the active page (0 is None); bm.open: the pages that are not
\* closed; bm.live: the session resources acquired and not yet released;
\* bm.executor: the page the AssertionExecutor was constructed with (0: no
\* executor).  Pages are named by positive numbers.
BrowserManager_init ==
    [page |-> 0, open |-> {}, live |-> {}, executor |-> 0]

\* The name of the page new_page() makes: a name is free when no open
\* page has it and the session holds no page of that name.
FreshPage(b) ==
    LET used == b.open \cup {b.page, b.executor}
    IN  CHOOSE n \in 1..(Cardinality(used) + 1) :
            /\ n \notin used
            /\ \A m \in 1..(n - 1) : m \in used

\* start(): failAt = 0 is success; failAt = k > 0 means the k-th
\* acquisition (engine, launch, new_context, new_page) raised, which leaves
\* the first k-1 acquired and the exception propagating.
StartStages == 0..4

BrowserManager_start(b, failAt) ==
    LET got == IF failAt = 0 THEN 3 ELSE failAt - 1
        res == {SessionResources[i] : i \in 1..(IF got > 3 THEN 3 ELSE got)}
    IN  IF failAt = 0
        THEN [b EXCEPT !.live = res,
                       !.page = FreshPage(b),
                       !.open = @ \cup {FreshPage(b)},
                       !.executor = FreshPage(b)]
        ELSE [b EXCEPT !.live = @ \cup res]

\* context.new_page()
NewPage(b) == [b EXCEPT !.open = @ \cup {FreshPage(b)}]

is_closed(b, p) == p \notin b.open

\* close(): failAt = 0 is success; failAt = k > 0 means the k-th release
\* (page, context, browser, engine) raised: the earlier ones are done, the
\* later ones are skipped.  Closing the context closes all its pages.
CloseStages == 0..4

BrowserManager_close(b, failAt) ==
    LET done == IF failAt = 0 THEN 4 ELSE failAt - 1
        b1 == IF done >= 1 /\ b.page # 0
              THEN [b EXCEPT !.open = @ \ {b.page}] ELSE b
        b2 == IF done >= 2 /\ "context" \in b.live
              THEN [b1 EXCEPT !.open = {}, !.live = @ \ {"context"}] ELSE b1
        b3 == IF done >= 3 THEN [b2 EXCEPT !.live = @ \ {"browser"}] ELSE b2
        b4 == IF done >= 4 THEN [b3 EXCEPT !.live = @ \ {"playwright"}] ELSE b3
    IN  b4


\* ------------------------------------------------ AssertionPatternMatcher
\* An instruction is the sequence of its tokens; a token stands for a
\* substring of the instruction's text:
\*   "URL" URL, "ga" が, "ni" に, "wo" を, "de" で, "lb" 「, "rb" 」,
\*   "dq" the double quote, "sq" the single quote, "success" success,
\*   "login" ログイン, "de_owaru" で終わる, "de_hajimaru" で始まる,
\*   "fukumareru" 含まれる, "hyoji_sarete" 表示されて, "iru" いる,
\*   "inai" いない, "koto" こと, "kakunin" 確認, "suru" する,
\*   "botan" ボタン, "kurikku" クリック, "yuko" 有効,
\*   "konnichiwa" こんにちは.

\* The characters str.strip('「」""''\'\'""') removes.
QuoteChars == {"lb", "rb", "dq", "sq"}

RECURSIVE strip(_)
strip(text) ==
    IF text # <<>> /\ Head(text) \in QuoteChars THEN strip(Tail(text))
    ELSE IF text # <<>> /\ text[Len(text)] \in QuoteChars
    THEN strip(SubSeq(text, 1, Len(text) - 1))
    ELSE text

\* The parts of a regular expression of the table: (.+?), (?:a|b|c) and
\* (?:a|b|c)? with the alternatives in their order, and the part (?:？|?)?
\* re cannot compile.
group == [k |-> "group", alts |-> <<>>, opt |-> FALSE]
alt(alts) == [k |-> "lit", alts |-> alts, opt |-> FALSE]
opt(alts) == [k |-> "lit", alts |-> alts, opt |-> TRUE]
NothingToRepeat == "nothing to repeat"
Malformed == <<[k |-> NothingToRepeat, alts |-> <<>>, opt |-> TRUE]>>
\* An expression with a literal part that occurs in no instruction of
\* Sentences.
Foreign == <<alt(<<<<"other">>>>)>>

pattern(line, type, kind, re) ==
    [line |-> line, type |-> type, kind |-> kind, re |-> re]

\* AssertionPatternMatcher.PATTERNS, in order: the line of the entry, the
\* value of its AssertionType, its parameter kind and its expression.
PATTERNS ==
    LET polite == opt(<<<<"suru">>, <<"shimasu">>, <<"shite", "kudasai">>,
                        <<"onegai", "shimasu">>>>)
        polite3 == opt(<<<<"suru">>, <<"shimasu">>, <<"shite", "kudasai">>>>)
        confirm == alt(<<<<"kakunin">>, <<"chekku">>, <<"kensho">>>>)
        shown == opt(<<<<"hyoji_sarete">>, <<"dete">>, <<"miete">>>>)
        lb == opt(<<<<"lb">>>>)
        rb == opt(<<<<"rb">>>>)
    IN
    <<pattern(107, "text_exists", "text", <<group, alt(<<<<"ga">>>>), shown,
          alt(<<<<"iru">>, <<"iru", "koto">>, <<"iru", "koto", "wo">>>>),
          confirm, polite>>),
      pattern(109, "text_exists", "text", Foreign),
      pattern(111, "text_exists", "text", Foreign),
      pattern(115, "text_not_exists", "text", <<group, alt(<<<<"ga">>>>),
          shown, alt(<<<<"inai">>, <<"inai", "koto">>, <<"inai", "koto",
          "wo">>>>), confirm, polite>>),
      pattern(117, "text_not_exists", "text", <<alt(<<<<"lb">>>>), group,
          alt(<<<<"rb">>>>), alt(<<<<"ga">>>>), opt(<<<<"hyoji_sarete">>,
          <<"sonzai", "shite">>>>), alt(<<<<"inai">>, <<"inai", "koto", "wo",
          "kakunin">>>>), polite>>),
      pattern(119, "text_not_exists", "text", Foreign),
      pattern(123, "element_exists", "selector", Foreign),
      pattern(125, "element_visible", "selector", <<group, alt(<<<<"ga">>>>),
          alt(<<<<"mieru">>, <<"hyoji_sarete", "iru">>, <<"sonzai", "suru",
          "koto", "wo", "kakunin">>>>)>>),
      pattern(129, "element_not_exists", "selector", Foreign),
      pattern(131, "element_hidden", "selector", <<group, alt(<<<<"ga">>>>),
          alt(<<<<"mienai">>, <<"hyoji_sarete", "inai">>, <<"sonzai", "shinai",
          "koto", "wo", "kakunin">>>>)>>),
      pattern(135, "url_contains", "url", <<alt(<<<<"URL", "ga">>>>), group,
          alt(<<<<"de_owaru">>, <<"ni", "natte", "iru">>, <<"de", "aru", "koto",
          "wo", "kakunin">>>>), polite>>),
      pattern(137, "url_contains", "url", <<alt(<<<<"URL", "ni">>>>), lb,
          group, rb, alt(<<<<"ga", "fukumareru">>>>), opt(<<<<"koto", "wo",
          "kakunin">>>>), polite>>),
      pattern(139, "url_equals", "url", Foreign),
      pattern(141, "url_starts_with", "url", <<alt(<<<<"URL", "ga">>>>), lb,
          group, rb, alt(<<<<"de_hajimaru", "koto", "wo", "kakunin">>>>),
          polite>>),
      pattern(143, "url_ends_with", "url", <<alt(<<<<"URL", "ga">>>>), lb,
          group, rb, alt(<<<<"de_owaru", "koto", "wo", "kakunin">>>>), polite>>),
      pattern(147, "title_equals", "title", Foreign),
      pattern(149, "title_contains", "title", Foreign),
      pattern(153, "input_value_equals", "selector_value", Foreign),
      pattern(155, "checkbox_checked", "selector", Foreign),
      pattern(157, "checkbox_unchecked", "selector", Foreign),
      pattern(161, "element_count", "selector_count", Foreign),
      pattern(163, "element_count", "selector_count", Foreign),
      pattern(167, "element_exists", "html_element", Foreign),
      pattern(169, "element_exists", "html_element", Foreign),
      pattern(173, "text_exists", "text", Foreign),
      pattern(175, "text_not_exists", "text", Foreign),
      pattern(177, "url_contains", "url", Foreign),
      pattern(179, "url_starts_with", "url", Foreign),
      pattern(181, "url_ends_with", "url", Foreign),
      pattern(183, "title_contains", "title", Foreign),
      pattern(185, "title_equals", "title", Foreign),
      pattern(189, "text_exists", "text", Foreign),
      pattern(191, "text_not_exists", "text", Foreign),
      pattern(193, "url_contains", "url", Foreign),
      pattern(195, "url_starts_with", "url", Foreign),
      pattern(197, "url_ends_with", "url", Foreign),
      pattern(199, "title_contains", "title", Foreign),
      pattern(201, "title_equals", "title", Foreign),
      pattern(207, "text_exists", "text", Foreign),
      pattern(209, "text_exists", "text", Foreign),
      pattern(211, "text_exists", "text", Foreign),
      pattern(213, "text_exists", "text", Foreign),
      pattern(217, "text_exists", "text", Foreign),
      pattern(219, "text_exists", "text", Foreign),
      pattern(221, "text_exists", "text", Foreign),
      pattern(225, "text_exists", "text", Foreign),
      pattern(227, "text_exists", "text", Foreign),
      pattern(231, "text_exists", "text", Foreign),
      pattern(233, "text_exists", "text", Foreign),
      pattern(237, "url_contains", "url", Foreign),
      pattern(239, "url_starts_with", "url", Foreign),
      pattern(241, "url_ends_with", "url", Foreign),
      pattern(245, "title_contains", "title", Foreign),
      pattern(247, "title_equals", "title", Foreign),
      pattern(251, "text_not_exists", "text", <<lb, group, rb,
          alt(<<<<"ga">>, <<"tte">>>>), shown, alt(<<<<"inai">>, <<"nai">>>>),
          alt(<<<<"koto">>, <<"koto", "wo">>, <<"hazu">>>>), opt(<<<<"wo">>,
          <<"ni", "tsuite">>>>), confirm, polite3>>),
      pattern(253, "text_not_exists", "text", Foreign),
      pattern(255, "text_not_exists", "text", Foreign),
      pattern(259, "text_exists", "text", Foreign),
      pattern(261, "text_not_exists", "text", Foreign),
      pattern(263, "text_exists", "text", Foreign),
      pattern(265, "text_exists", "text", Foreign),
      pattern(269, "text_exists", "text", Foreign),
      pattern(271, "text_exists", "text", Foreign),
      pattern(273, "text_exists", "text", Foreign),
      pattern(279, "text_exists", "text", Foreign),
      pattern(281, "text_exists", "text", Foreign),
      pattern(283, "text_exists", "text", Foreign),
      pattern(287, "text_exists", "text", Foreign),
      pattern(289, "text_exists", "text", Foreign),
      pattern(293, "text_exists", "text", Foreign),
      pattern(295, "text_exists", "text", Foreign),
      pattern(301, "text_exists", "text", Foreign),
      pattern(303, "text_exists", "text", Foreign),
      pattern(307, "text_exists", "text", Foreign),
      pattern(309, "text_exists", "text", Foreign),
      pattern(313, "text_exists", "text", Foreign),
      pattern(315, "text_exists", "text", Foreign),
      pattern(321, "text_exists", "text", Foreign),
      pattern(323, "text_exists", "text", Foreign),
      pattern(325, "text_exists", "text", Foreign),
      pattern(329, "text_exists", "text", Foreign),
      pattern(331, "text_exists", "text", Foreign),
      pattern(333, "text_exists", "text", Foreign),
      pattern(339, "text_exists", "text", Foreign),
      pattern(341, "text_exists", "text", Foreign),
      pattern(345, "text_exists", "text", Foreign),
      pattern(347, "text_exists", "text", Foreign),
      pattern(353, "text_exists", "text", Foreign),
      pattern(355, "text_exists", "text", Foreign),
      pattern(359, "text_not_exists", "text", Foreign),
      pattern(361, "text_not_exists", "text", Foreign),
      pattern(367, "text_exists", "text", Foreign),
      pattern(369, "text_exists", "text", Foreign),
      pattern(373, "text_exists", "text", Foreign),
      pattern(375, "text_exists", "text", Foreign),
      pattern(381, "url_contains", "url", Foreign),
      pattern(383, "url_starts_with", "url", Foreign),
      pattern(385, "url_ends_with", "url", Foreign),
      pattern(389, "title_contains", "title", Foreign),
      pattern(391, "title_equals", "title", Foreign),
      pattern(397, "text_exists", "text", Foreign),
      pattern(399, "text_exists", "text", Foreign),
      pattern(401, "text_exists", "text", Foreign),
      pattern(405, "text_exists", "text", Foreign),
      pattern(407, "text_exists", "text", Foreign),
      pattern(409, "text_exists", "text", Foreign),
      pattern(413, "text_exists", "text", Foreign),
      pattern(415, "text_exists", "text", Foreign),
      pattern(421, "text_exists", "text", Foreign),
      pattern(423, "text_exists", "text", Foreign),
      pattern(427, "text_exists", "text", Foreign),
      pattern(429, "text_exists", "text", Foreign),
      pattern(433, "text_exists", "text", Malformed),
      pattern(435, "text_exists", "text", Malformed),
      pattern(441, "element_exists", "button", <<lb, group, rb,
          alt(<<<<"botan">>, <<"button">>, <<"Button">>, <<"anniu">>,
          <<"anniu_trad">>>>), alt(<<<<"ga">>, <<"wa">>>>), alt(<<<<"hyoji">>,
          <<"sonzai">>, <<"kurikku", "kano">>, <<"oseru">>, <<"yuko">>>>),
          alt(<<<<"ni", "natte">>, <<"de">>, <<"ni">>>>), alt(<<<<"iru">>,
          <<"iru", "koto">>>>), opt(<<<<"wo">>, <<"ni", "tsuite">>>>),
          alt(<<<<"kakunin">>, <<"kensho">>, <<"chekku">>>>)>>),
      pattern(443, "element_enabled", "button", Foreign),
      pattern(445, "element_disabled", "button", Foreign),
      pattern(449, "element_exists", "link", Foreign),
      pattern(451, "element_exists", "link", Foreign),
      pattern(455, "input_value_equals", "input_empty", Foreign),
      pattern(457, "input_value_contains", "input_any", Foreign),
      pattern(461, "input_value_equals", "select_value", Foreign),
      pattern(463, "element_exists", "select_option", Foreign),
      pattern(469, "element_not_exists", "loading", Foreign),
      pattern(471, "element_not_exists", "loading", Foreign),
      pattern(475, "text_not_exists", "error", Foreign),
      pattern(477, "text_not_exists", "warning", Foreign),
      pattern(481, "text_exists", "success", Foreign),
      pattern(483, "text_exists", "complete", Foreign),
      pattern(489, "element_exists", "image", Foreign),
      pattern(491, "element_exists", "icon", Foreign),
      pattern(495, "element_exists", "video", Foreign),
      pattern(497, "element_exists", "video_player", Foreign),
      pattern(503, "text_exists", "table_data", Foreign),
      pattern(505, "element_count", "table_rows", Foreign),
      pattern(509, "text_exists", "list_item", Foreign),
      pattern(511, "element_count", "list_items", Foreign),
      pattern(517, "element_visible", "modal", Foreign),
      pattern(519, "element_not_exists", "modal", Foreign),
      pattern(523, "element_not_exists", "alert", Foreign),
      pattern(525, "element_exists", "notification", Foreign),
      pattern(531, "element_visible", "menu", Foreign),
      pattern(533, "text_exists", "nav", Foreign),
      pattern(537, "element_exists", "tab_active", Foreign),
      pattern(539, "element_visible", "tab_content", Foreign),
      pattern(545, "attribute_exists", "aria_label", Foreign),
      pattern(547, "attribute_exists", "aria", Foreign),
      pattern(551, "element_exists", "focused", Foreign),
      pattern(553, "element_enabled", "tabbable", Foreign),
      pattern(559, "element_visible", "mobile", Foreign),
      pattern(561, "element_visible", "responsive", Foreign),
      pattern(567, "element_visible", "performance", Foreign),
      pattern(569, "element_visible", "fast_response", Foreign),
      pattern(575, "url_starts_with", "https", Foreign),
      pattern(577, "url_starts_with", "secure", Foreign),
      pattern(583, "text_exists", "symbol", Foreign),
      pattern(585, "text_exists", "required_mark", Foreign),
      pattern(591, "text_exists", "date", Foreign),
      pattern(593, "text_exists", "today_date", Foreign),
      pattern(597, "text_exists", "time", Foreign),
      pattern(599, "text_exists", "current_time", Foreign),
      pattern(605, "text_exists", "price", Foreign),
      pattern(607, "text_exists", "total", Foreign),
      pattern(613, "text_contains", "count", Foreign),
      pattern(615, "text_contains", "remaining", Foreign),
      pattern(621, "text_exists", "logged_in", Foreign),
      pattern(623, "text_not_exists", "logged_in", Foreign),
      pattern(627, "text_exists", "username", Foreign),
      pattern(629, "text_exists", "account", Foreign),
      pattern(635, "element_enabled", "download", Foreign),
      pattern(637, "element_exists", "file_download", Foreign),
      pattern(641, "element_enabled", "upload", Foreign),
      pattern(643, "element_exists", "file_input", Foreign),
      pattern(649, "text_contains", "progress", Foreign),
      pattern(651, "element_exists", "progress_bar", Foreign),
      pattern(657, "text_exists", "info", Foreign),
      pattern(659, "text_exists", "hint", Foreign),
      pattern(665, "text_not_exists", "validation_error", Foreign),
      pattern(667, "element_exists", "valid_form", Foreign),
      pattern(673, "element_exists", "sorted", Foreign),
      pattern(675, "element_exists", "ordered", Foreign),
      pattern(681, "element_exists", "filter", Foreign),
      pattern(683, "text_contains", "search_results", Foreign),
      pattern(689, "text_contains", "page_number", Foreign),
      pattern(691, "element_enabled", "pagination", Foreign),
      pattern(697, "text_exists", "language", Foreign),
      pattern(699, "text_exists", "locale", Foreign)>>

\* re.search(pattern, instruction): re.error when the expression does not
\* compile; otherwise the leftmost match, alternatives tried in order,
\* (.+?) as short as possible, with the captured groups.
NoMatch == [error |-> None, matched |-> FALSE, groups |-> <<>>]

search(re, s) ==
    LET at(pos, l) ==
            /\ pos + Len(l) - 1 <= Len(s)
            /\ SubSeq(s, pos, pos + Len(l) - 1) = l
        first(r) ==
            LET ok == {x \in DOMAIN r : r[x].matched}
            IN  IF ok = {} THEN NoMatch
                ELSE r[CHOOSE x \in ok : \A y \in ok : x <= y]
        RECURSIVE match(_, _, _)
        match(k, pos, g) ==
            IF k > Len(re)
            THEN [error |-> None, matched |-> TRUE, groups |-> g]
            ELSE IF re[k].k = "group"
            THEN first([e \in pos..Len(s) |->
                          match(k + 1, e + 1, Append(g, SubSeq(s, pos, e)))])
            ELSE LET taken ==
                         first([j \in 1..Len(re[k].alts) |->
                                  IF at(pos, re[k].alts[j])
                                  THEN match(k + 1, pos + Len(re[k].alts[j]), g)
                                  ELSE NoMatch])
                 IN  IF taken.matched \/ ~re[k].opt THEN taken
                     ELSE match(k + 1, pos, g)
    IN  IF \E k \in 1..Len(re) : re[k].k = NothingToRepeat
        THEN [NoMatch EXCEPT !.error = NothingToRepeat]
        ELSE first([p \in 1..(Len(s) + 1) |-> match(1, p, <<>>)])

\* _text_to_selector(text): the selector template chosen by the role word
\* in the text, and the text without the role word and without quotes.
text_to_selector(text) ==
    LET t == strip(text)
        has(w) == \E i \in 1..Len(t) : t[i] \in w
        sel(template, w) ==
            [template |-> template,
             name |-> strip(SelectSeq(t, LAMBDA x : x \notin w))]
    IN  IF has({"botan"}) THEN sel("button", {"botan"})
        ELSE IF has({"rinku"}) THEN sel("a", {"rinku"})
        ELSE IF has({"firudo", "nyuryokuran"})
        THEN sel("input", {"firudo", "nyuryokuran"})
        ELSE IF has({"chekkubokkusu"})
        THEN sel("checkbox", {"chekkubokkusu"})
        ELSE IF has({"button", "Button"})
        THEN sel("button", {"button", "Button"})
        ELSE IF has({"link", "Link"}) THEN sel("a", {"link", "Link"})
        ELSE IF has({"anniu", "anniu_trad"})
        THEN sel("button", {"anniu", "anniu_trad"})
        ELSE IF has({"lianjie", "lianjie_trad"})
        THEN sel("a", {"lianjie", "lianjie_trad"})
        ELSE [template |-> "has-text", name |-> t]

NoText == <<None>>
NoSelector == [template |-> None, name |-> <<>>]
NoAssertion ==
    [error |-> None, type |-> None, expected |-> NoText,
     selector |-> NoSelector, entry |-> 0]

\* The parameter kinds parse() has a branch for.
HandledKinds ==
    {"text", "selector", "url", "title", "selector_value", "selector_count",
     "html_element"}

\* AssertionPatternMatcher.parse(instruction): the loop over PATTERNS is
\* left at the first entry where re.search raises, or matches with a
\* parameter kind parse() has a branch for; a match with any other kind
\* goes on to the next entry.  The result is the re.error, the assertion
\* built from the entry, or NoAssertion (None) after the last entry.
parse(instruction) ==
    LET table == PATTERNS
        found == [i \in 1..Len(table) |-> search(table[i].re, instruction)]
        left ==
            {i \in 1..Len(table) :
                \/ found[i].error # None
                \/ found[i].matched /\ table[i].kind \in HandledKinds}
        i == CHOOSE i \in left : \A j \in left : i <= j
        p == table[i]
        groups == found[i].groups
        a == [NoAssertion EXCEPT !.type = p.type, !.entry = i]
    IN  IF left = {} THEN NoAssertion
        ELSE IF found[i].error # None
        THEN [NoAssertion EXCEPT !.error = found[i].error, !.entry = i]
        ELSE IF p.kind \in {"text", "url", "title"}
        THEN [a EXCEPT !.expected = strip(groups[1])]
        ELSE IF p.kind = "selector"
        THEN [a EXCEPT !.selector = text_to_selector(groups[1])]
        ELSE IF p.kind \in {"selector_value", "selector_count"}
        THEN [a EXCEPT !.selector = text_to_selector(groups[1]),
                       !.expected = groups[2]]
        ELSE [a EXCEPT !.selector = [template |-> "element",
                                     name |-> groups[1]]]

\* AssertionPatternMatcher(), as the runners hold it.
AssertionPatternMatcher ==
    [instruction \in Instructions \cup {str_strip(l) : l \in Lines} |->
        parse(instruction)]

\* ------------------------------------------------------ result records
NoScreenshot == [kind |-> None, case |-> "", idx |-> 0]

NoAssertionResult == [type |-> None, passed |-> FALSE, error_message |-> None]

\* What the environment answered during the last step: the translator's
\* action, how the action executor ended, the assertion's verdict, how
\* the capture of the failure screenshot ended; and, for the suite of the
\* Robust Runner, whether the navigation to its base URL raised.
NoOutcome ==
    [action |-> None, executor |-> None, passed |-> FALSE, capture |-> None,
     navigate |-> None]

\* The interactive session before its first line.
NoInteraction ==
    [instruction |-> <<None>>, page_info |-> None, reported |-> None,
     left |-> FALSE, interrupted |-> FALSE]

step_result_init(step, idx) ==
    [index |-> idx,
     natural_language |-> step.instruction,
     status |-> "running",
     action |-> None,
     assertion_result |-> NoAssertionResult,
     error |-> None,
     ended |-> FALSE]

case_result_init(tc) ==
    [name |-> IF tc.named THEN "test_case" ELSE "Unknown",
     status |-> "running",
     steps |-> <<>>,
     error |-> None,
     screenshot |-> NoScreenshot,
     ended |-> FALSE]

results_init ==
    [test_cases |-> <<>>,
     summary |-> [total |-> 0, passed |-> 0, failed |-> 0, errors |-> 0],
     ended |-> FALSE]

\* Fault: the summary update counts a failed case among the errors.
update_summary_failed_as_error(s, status) ==
    [total |-> s.total + 1,
     passed |-> IF status = "passed" THEN s.passed + 1 ELSE s.passed,
     failed |-> s.failed,
     errors |-> IF status # "passed" THEN s.errors + 1 ELSE s.errors]

\* Fault: a case result that is neither passed nor failed is counted in
\* total only.
update_summary_errors_uncounted(s, status) ==
    [total |-> s.total + 1,
     passed |-> IF status = "passed" THEN s.passed + 1 ELSE s.passed,
     failed |-> IF status = "failed" THEN s.failed + 1 ELSE s.failed,
     errors |-> s.errors]

\* The summary update of the suite loops.
update_summary(s, status) ==
    [total |-> s.total + 1,
     passed |-> IF status = "passed" THEN s.passed + 1 ELSE s.passed,
     failed |-> IF status = "failed" THEN s.failed + 1 ELSE s.failed,
     errors |-> IF status \notin {"passed", "failed"}
                THEN s.errors + 1 ELSE s.errors]

\* results["test_cases"].append(case_result) and the summary update.  Of an
\* appended case result the runners read only the status again, so the
\* list keeps the status; the full case result stays in case_result until
\* the next case begins.
append_case(res, cr) ==
    [res EXCEPT !.test_cases = Append(@, [status |-> cr.status]),
                !.summary = update_summary(@, cr.status)]

\* A result as the caller of a runner holds it.  Of a returned result main
\* reads summary.failed and summary.errors and tests them against 0, so
\* the lists of returned results keep these two counts up to "some"; the
\* full suite result stays in results until the next file begins.  file
\* is the position of the file the result was made for.
Some(n) == IF n > 0 THEN 1 ELSE 0

suite_result(f, res) ==
    [kind |-> "suite", file |-> f,
     summary |-> [failed |-> Some(res.summary.failed),
                  errors |-> Some(res.summary.errors)]]

\* The error result the batch runners record for a file that raised: it
\* has no "summary" key, and result.get("summary", {}) is the empty
\* mapping, whose .get("failed", 0) and .get("errors", 0) are 0.
error_result(f) ==
    [kind |-> "error", file |-> f, summary |-> [failed |-> 0, errors |-> 0]]

\* ------------------------------------------------------------ _execute_step
\* What the environment can answer for a step.  The translator is asked
\* for an instruction parse() returns None for; execute_action raises only
\* from a page operation, and an unrecognized action_type performs none;
\* the assertion executor returns a verdict.
IsAction(step) ==
    /\ step.is_dict
    /\ step.instruction # <<>>
    /\ assertion_pattern_matcher[step.instruction] = NoAssertion

IsAssertion(step) ==
    /\ step.is_dict
    /\ step.instruction # <<>>
    /\ assertion_pattern_matcher[step.instruction].type # None

TranslatorAnswers(step) ==
    IF IsAction(step) THEN ActionTypes ELSE {None}

\* Fault: execute_action raises for an action_type it does not know.
ExecutorAnswers_strict(action) ==
    IF action # None THEN {"returns", "raises"} ELSE {None}

ExecutorAnswers(action) ==
    IF action \in RecognizedActionTypes THEN {"returns", "raises"}
    ELSE IF action # None THEN {"returns"}
    ELSE {None}

AssertionAnswers(step) ==
    IF IsAssertion(step) THEN BOOLEAN ELSE {FALSE}

\* The capture of a failure screenshot succeeds or raises; it is asked for
\* only when screenshots are enabled and test_case["name"] exists.
CaptureAnswers(shot_on, tc) ==
    IF shot_on /\ tc.named THEN BOOLEAN ELSE {TRUE}

\* Fault: a step evaluated as an assertion passes whatever the verdict.
execute_step_verdict_ignored(step, idx, action, executor, passed) ==
    LET r0 == step_result_init(step, idx)
        info == assertion_pattern_matcher[step.instruction]
        r1 == IF step.instruction = <<>>
              THEN [r0 EXCEPT !.status = "failed", !.error = NoInstruction]
              ELSE IF info.error # None
              THEN [r0 EXCEPT !.status = "failed", !.error = info.error]
              ELSE IF info.type # None
              THEN [r0 EXCEPT
                      !.assertion_result =
                          [type |-> info.type,
                           passed |-> passed,
                           error_message |->
                               IF passed THEN None ELSE AssertionFailed],
                      !.status = "passed",
                      !.error = IF passed THEN None ELSE AssertionFailed]
              ELSE IF executor = "returns"
              THEN [r0 EXCEPT !.action = action, !.status = "passed"]
              ELSE [r0 EXCEPT !.action = action, !.status = "failed",
                              !.error = EngineError]
    IN  [r1 EXCEPT !.ended = TRUE]

\* TestRunner._execute_step / OptimizedTestRunner._execute_step for a step
\* that is a mapping: the step result, given the translator's action, the
\* way execute_action ends and the assertion's verdict.
execute_step(step, idx, action, executor, passed) ==
    LET r0 == step_result_init(step, idx)
        info == assertion_pattern_matcher[step.instruction]
        r1 == IF step.instruction = <<>>
              THEN [r0 EXCEPT !.status = "failed", !.error = NoInstruction]
              ELSE IF info.error # None
              THEN [r0 EXCEPT !.status = "failed", !.error = info.error]
              ELSE IF info.type # None
              THEN [r0 EXCEPT
                      !.assertion_result =
                          [type |-> info.type,
                           passed |-> passed,
                           error_message |->
                               IF passed THEN None ELSE AssertionFailed],
                      !.status = IF passed THEN "passed" ELSE "failed",
                      !.error = IF passed THEN None ELSE AssertionFailed]
              ELSE IF executor = "returns"
              THEN [r0 EXCEPT !.action = action, !.status = "passed"]
              ELSE [r0 EXCEPT !.action = action, !.status = "failed",
                              !.error = EngineError]
    IN  [r1 EXCEPT !.ended = TRUE]

\* TestConfig.retry_count: its default.  No runner reads it.
retry_count == 3

\* Fault: the instruction goes to the pattern matcher and on before it is
\* tested for being empty.
step_calls_before_check(step, idx, action) ==
    LET c(k, a) == [step |-> idx, kind |-> k,
                    instruction |-> step.instruction, arg |-> a]
        info == assertion_pattern_matcher[step.instruction]
    IN  IF info.error # None THEN <<c("parse", None)>>
        ELSE IF info.type # None
        THEN <<c("parse", None), c("assertion", info.type)>>
        ELSE <<c("parse", None), c("translate", None), c("action", action)>>

\* The calls _execute_step makes for the step, in order (calls holds the
\* calls of the step executed last): the pattern matcher and the
\* translator get the instruction, the assertion executor gets the
\* assertion (arg is its type), the action executor gets the action.
step_calls(step, idx, action) ==
    LET c(k, a) == [step |-> idx, kind |-> k,
                    instruction |-> step.instruction, arg |-> a]
        info == assertion_pattern_matcher[step.instruction]
    IN  IF step.instruction = <<>> THEN <<>>
        ELSE IF info.error # None THEN <<c("parse", None)>>
        ELSE IF info.type # None
        THEN <<c("parse", None), c("assertion", info.type)>>
        ELSE <<c("parse", None), c("translate", None), c("action", action)>>

\* await asyncio.sleep(0.5) after execute_action has returned: the pause
\* joins the calls of the step.
settle(cs, executor) ==
    IF executor = "returns"
    THEN Append(cs, [cs[Len(cs)] EXCEPT !.kind = "sleep", !.arg = None])
    ELSE cs

step_outcome(step, action, executor, passed) ==
    IF step.instruction = <<>> THEN NoOutcome
    ELSE IF assertion_pattern_matcher[step.instruction].error # None THEN NoOutcome
    ELSE IF assertion_pattern_matcher[step.instruction].type # None
    THEN [NoOutcome EXCEPT !.passed = passed]
    ELSE [NoOutcome EXCEPT !.action = action, !.executor = executor]

\* Fault: _take_failure_screenshot returns the path it asked for also
\* when the capture raised.
take_failure_screenshot_no_fallback(name, idx, capture_ok) ==
    [kind |-> "failure", case |-> name, idx |-> idx]

\* _take_failure_screenshot: the path returned, output_dir /
\* failure_{test_name}_{step_idx}_{timestamp}.png (kind "failure", with
\* the name and the index) or the fallback path.
take_failure_screenshot(name, idx, capture_ok) ==
    IF capture_ok
    THEN [kind |-> "failure", case |-> name, idx |-> idx]
    ELSE [kind |-> ScreenshotFailed, case |-> "", idx |-> 0]

\* How browser_manager.take_screenshot ended in an iteration of the step
\* loop whose step got the status st: it is called when screenshots are
\* enabled, the step failed or was no mapping, and test_case["name"]
\* exists.
capture_outcome(tc, step, st, capture_ok, shot_on) ==
    IF shot_on /\ tc.named /\ (~step.is_dict \/ st = "failed")
    THEN IF capture_ok THEN "returns" ELSE "raises"
    ELSE None

\* ------------------------------------------------------- _execute_test_case
\* case_result["steps"].append(step_result) and the failed check.  Of an
\* appended step result nothing but its place is read again, so the list
\* keeps index and status; the full step result stays in step_result
\* until the next step begins.
record_step(cr, sr) ==
    [cr EXCEPT !.steps = Append(@, [index |-> sr.index,
                                    status |-> sr.status]),
               !.status = IF sr.status = "failed" THEN "failed" ELSE @]

\* The loop condition of the step loop: the loop is left by break as soon
\* as the status is no longer "running".
more_steps(cr, tc) ==
    cr.status = "running" /\ Len(cr.steps) < tc.nsteps

\* The except clause of _execute_test_case: raised is the exception that
\* leaves the clause (test_case["name"] of a case without a name).
case_except(cr, tc, msg, capture_ok, shot_on) ==
    LET c1 == [cr EXCEPT !.status = "error", !.error = msg]
    IN  IF ~shot_on THEN [case |-> c1, raised |-> None]
        ELSE IF tc.named
        THEN [case |-> [c1 EXCEPT !.screenshot =
                         take_failure_screenshot("test_case", -1, capture_ok)],
              raised |-> None]
        ELSE [case |-> c1, raised |-> KeyErrorName]

\* One iteration of the step loop of _execute_test_case, with the except
\* clause it may end in.
case_step(cr, tc, step, idx, action, executor, passed, capture_ok, shot_on) ==
    IF ~step.is_dict
    THEN \* step.get raises before _execute_step's try
         case_except(cr, tc, NotAMapping, capture_ok, shot_on)
    ELSE LET sr == execute_step(step, idx, action, executor, passed)
             c1 == record_step(cr, sr)
         IN  IF sr.status = "failed" /\ shot_on
             THEN IF tc.named
                  THEN [case |-> [c1 EXCEPT !.screenshot =
                          take_failure_screenshot("test_case", idx, capture_ok)],
                        raised |-> None]
                  ELSE case_except(c1, tc, KeyErrorName, capture_ok, shot_on)
             ELSE [case |-> c1, raised |-> None]

\* The end of _execute_test_case.
\* Fault: a case whose loop was left by a failed step ends as passed.
case_end_passing(cr) ==
    [cr EXCEPT !.status = IF @ \in {"running", "failed"} THEN "passed" ELSE @,
               !.ended = TRUE]

\* The end of _execute_test_case*: a case still running has passed.
case_end(cr) ==
    [cr EXCEPT !.status = IF @ = "running" THEN "passed" ELSE @,
               !.ended = TRUE]

\* --------------------------------------------------------------- main
\* main's parameters robust and optimized: read is TRUE from the moment
\* main has its arguments until the selected runner's first function is
\* entered, after which nothing reads the flags again.
NoFlags == [read |-> FALSE, robust |-> FALSE, optimized |-> FALSE]

\* Fault: main tests the optimized flag before the robust flag.
select_runner_optimized_first(n, r, o) ==
    IF n = 0 THEN "standard"
    ELSE IF o THEN "optimized"
    ELSE IF r THEN "robust"
    ELSE "standard"

\* The runner main constructs.
select_runner(n, r, o) ==
    IF n = 0 THEN "standard"
    ELSE IF r THEN "robust"
    ELSE IF o THEN "optimized"
    ELSE "standard"

\* Fault: main looks at summary.failed only.
has_failures_failed_only(result) ==
    result.summary.failed > 0

\* The summary test main applies to every result it gets.
has_failures(result) ==
    result.summary.failed > 0 \/ result.summary.errors > 0

\* all_tests_passed after main's loop over a list of results.
check_results(rs, passed) ==
    passed /\ \A i \in DOMAIN rs : ~has_failures(rs[i])

\* The locals of the suite, case and step functions, before a call and
\* after the frame is gone.
NoTestData == [ncases |-> 0]

NoTestCase == [is_dict |-> TRUE, named |-> TRUE, nsteps |-> 0]

NoCaseResult == case_result_init(NoTestCase)

NoStepResult == step_result_init([instruction |-> <<>>], 0)

ClearCase ==
    /\ test_case' = NoTestCase
    /\ case_result' = NoCaseResult
    /\ step_result' = NoStepResult
    /\ calls' = <<>>
    /\ outcome' = NoOutcome

ClearSuite ==
    /\ test_data' = NoTestData
    /\ results' = results_init

\* The process ends: code is the exit code, top what reached main's
\* handlers (None, "Exception" or "KeyboardInterrupt"), origin where it
\* was raised.  exc is the exception that is propagating, or that ended
\* the process.
Exit(code, top, origin) ==
    /\ pc' = "exited"
    /\ exit_code' = code
    /\ top_exc' = top
    /\ exc' = origin
    /\ ClearSuite
    /\ ClearCase

Running == UNCHANGED <<exit_code, top_exc, exc>>

\* An exception starts to propagate out of the function at where.
Raise(e, where) ==
    /\ exc' = e
    /\ pc' = where
    /\ UNCHANGED <<exit_code, top_exc>>

\* The assignments of one executed step to the step locals.
StepLocals(sr, cs, oc) ==
    /\ step_result' = sr
    /\ calls' = cs
    /\ outcome' = oc

Init ==
    /\ nFiles \in 0..MaxFiles
    /\ screenshot_on_failure = TRUE
    /\ flags = NoFlags
    /\ pc = "main"
    /\ runner = None
    /\ returned = <<>>
    /\ all_tests_passed = TRUE
    /\ exit_code = -1
    /\ top_exc = None
    /\ exc = None
    /\ fileIdx = 0
    /\ batch_results = <<>>
    /\ browser_started = FALSE
    /\ test_data = NoTestData
    /\ results = results_init
    /\ test_case = NoTestCase
    /\ case_result = NoCaseResult
    /\ step_result = NoStepResult
    /\ calls = <<>>
    /\ outcome = NoOutcome
    /\ bm = BrowserManager_init
    /\ starts = 0
    /\ closes = 0
    /\ page = 0
    /\ original_page = 0
    /\ pending = None
    /\ assertion_pattern_matcher = AssertionPatternMatcher
    /\ interactive = NoInteraction
    /\ arg = None
    /\ ret = None
    /\ file = None

\* The first function the selected runner executes.
entry(r, n) ==
    IF n = 0 THEN "interactive"
    ELSE IF r = "robust" THEN "rob_batch"
    ELSE IF r = "optimized" THEN "opt_batch"
    ELSE "std_file"

\* test.screenshot_on_failure of the configuration main loads.  Only
\* _execute_test_case of the Standard and the Optimized Runner reads it;
\* a run that never reads it is followed with the default.
ScreenshotSettings(r, n) ==
    IF n > 0 /\ r \in {"standard", "optimized"} THEN BOOLEAN ELSE {TRUE}

\* main, up to the call of the runner: the configuration is loaded, and
\* robust and optimized are the command line's flags.
Main_select_runner ==
    /\ pc = "main"
    /\ \E robust \in BOOLEAN, optimized \in BOOLEAN :
          /\ flags' = [read |-> TRUE, robust |-> robust,
                        optimized |-> optimized]
          /\ runner' = select_runner(nFiles, robust, optimized)
          /\ pc' = entry(runner', nFiles)
    /\ screenshot_on_failure' \in ScreenshotSettings(runner', nFiles)
    /\ UNCHANGED <<nFiles, libv, mainv, batchv, suitev, casev, browserv, robustv>>

\* main, after the runner returned: the exit code.
Main_exit ==
    /\ pc = "main_exit"
    /\ IF nFiles > 0 /\ ~all_tests_passed
       THEN Exit(1, None, None)
       ELSE Exit(0, None, None)
    /\ UNCHANGED <<inputs, libv, runner, returned, all_tests_passed, batchv,
                   browserv, robustv>>


\* ------------------------------------------------------- Standard Runner
\* An exception that leaves run_test_file's scoped block: the session is
\* closed by __aexit__ and the exception reaches main's handler.
Std_abort(origin) ==
    /\ \E cf \in CloseStages :
          bm' = BrowserManager_close(bm, cf)
    /\ closes' = closes + 1
    /\ starts' = starts
    /\ Exit(1, "Exception", origin)

\* run_test_file: load the file, load the model, enter the scoped session.
Std_run_test_file ==
    /\ pc = "std_file"
    /\ flags' = NoFlags
    /\ \E load_ok \in BOOLEAN, model_ok \in BOOLEAN, sf \in StartStages,
          td \in TestData :
          IF ~load_ok \/ ~model_ok
          THEN /\ Exit(1, "Exception",
                       IF ~load_ok THEN "load" ELSE "load_model")
               /\ UNCHANGED browserv
          ELSE /\ starts' = starts + 1
               /\ bm' = BrowserManager_start(bm, sf)
               /\ closes' = closes
               /\ IF sf # 0
                  THEN Exit(1, "Exception", "start")
                  ELSE /\ pc' = "std_suite"
                       /\ test_data' = td
                       /\ UNCHANGED <<results, casev>>
                       /\ Running
    /\ UNCHANGED <<config, libv, runner, returned, all_tests_passed, batchv,
                   robustv>>

\* _execute_test_suite, up to the case loop.
Std_execute_test_suite ==
    /\ pc = "std_suite"
    /\ \E base_url \in BOOLEAN, navigate_ok \in BOOLEAN :
          IF base_url /\ ~navigate_ok
          THEN Std_abort("navigate")
          ELSE /\ pc' = "std_cases"
               /\ results' = results_init
               /\ UNCHANGED <<test_data, casev, browserv>>
               /\ Running
    /\ UNCHANGED <<inputs, libv, runner, returned, all_tests_passed, batchv,
                   robustv>>

\* The suite loop enters the next case: _execute_test_case up to the step
\* loop.  A test case that is no mapping has no .get.
Std_begin_test_case ==
    /\ pc = "std_cases"
    /\ Len(results.test_cases) < test_data.ncases
    /\ \E tc \in TestCases :
          IF ~tc.is_dict
          THEN /\ Raise(NotAMapping, "std_case_raised")
               /\ UNCHANGED casev
          ELSE /\ test_case' = tc
               /\ case_result' = case_result_init(tc)
               /\ StepLocals(NoStepResult, <<>>, NoOutcome)
               /\ pc' = "std_steps"
               /\ Running
    /\ UNCHANGED <<inputs, libv, runner, returned, all_tests_passed, batchv,
                   suitev, browserv, robustv>>

\* One iteration of the step loop.
Std_execute_step ==
    /\ pc = "std_steps"
    /\ more_steps(case_result, test_case)
    /\ \E step \in Steps :
       \E action \in TranslatorAnswers(step),
          passed \in AssertionAnswers(step),
          capture_ok \in CaptureAnswers(screenshot_on_failure, test_case) :
       \E executor \in ExecutorAnswers(action) :
          LET idx == Len(case_result.steps)
              r == case_step(case_result, test_case, step, idx, action,
                             executor, passed, capture_ok,
                             screenshot_on_failure)
          IN  /\ case_result' = r.case
              /\ IF step.is_dict
                 THEN LET sr == execute_step(step, idx, action, executor,
                                             passed)
                      IN  StepLocals(sr,
                             settle(step_calls(step, idx, action), executor),
                             [step_outcome(step, action, executor, passed)
                                 EXCEPT !.capture =
                                     capture_outcome(test_case, step,
                                         sr.status, capture_ok,
                                         screenshot_on_failure)])
                 ELSE StepLocals(NoStepResult, <<>>,
                         [NoOutcome EXCEPT !.capture =
                             capture_outcome(test_case, step, "running",
                                 capture_ok, screenshot_on_failure)])
              /\ IF r.raised # None
                 THEN Raise(r.raised, "std_case_raised")
                 ELSE Running /\ pc' = pc
    /\ UNCHANGED <<inputs, libv, runner, returned, all_tests_passed, batchv,
                   suitev, test_case, browserv, robustv>>

\* An exception left _execute_test_case: nothing in _execute_test_suite
\* or run_test_file catches it.
Std_case_raises ==
    /\ pc = "std_case_raised"
    /\ Std_abort(exc)
    /\ UNCHANGED <<inputs, libv, runner, returned, all_tests_passed, batchv,
                   robustv>>

\* The step loop is left and the case returns its result.
Std_end_test_case ==
    /\ pc = "std_steps"
    /\ ~more_steps(case_result, test_case)
    /\ case_result' = case_end(case_result)
    /\ pc' = "std_case_returned"
    /\ UNCHANGED <<inputs, libv, runner, mainv, batchv, suitev, test_case,
                   step_result, calls, outcome, browserv, robustv>>

\* The suite loop records the case result and updates the summary.
Std_record_test_case ==
    /\ pc = "std_case_returned"
    /\ results' = append_case(results, case_result)
    /\ pc' = "std_cases"
    /\ ClearCase
    /\ UNCHANGED <<inputs, libv, runner, mainv, batchv, test_data, browserv,
                   robustv>>

\* The suite returns: the session is closed, the results are saved and
\* returned, and main looks at the summary.
Std_end_test_suite ==
    /\ pc = "std_cases"
    /\ Len(results.test_cases) = test_data.ncases
    /\ closes' = closes + 1
    /\ starts' = starts
    /\ \E cf \in CloseStages, save_ok \in BOOLEAN :
          /\ bm' = BrowserManager_close(bm, cf)
          /\ IF cf # 0
             THEN /\ Exit(1, "Exception", "close")
                  /\ UNCHANGED <<returned, all_tests_passed, fileIdx>>
             ELSE IF ~save_ok
             THEN /\ Exit(1, "Exception", "save")
                  /\ UNCHANGED <<returned, all_tests_passed, fileIdx>>
             ELSE LET result == suite_result(fileIdx + 1, results)
                  IN  /\ returned' = Append(returned, result)
                      /\ all_tests_passed' =
                            check_results(<<result>>, all_tests_passed)
                      /\ fileIdx' = fileIdx + 1
                      /\ pc' = "std_returned"
                      /\ results' = [results EXCEPT !.ended = TRUE]
                      /\ UNCHANGED <<test_data, casev>>
                      /\ Running
    /\ UNCHANGED <<inputs, libv, runner, batch_results, browser_started, robustv>>

\* main's loop over the files goes on to the next file, or is done.
Std_next_file ==
    /\ pc = "std_returned"
    /\ pc' = IF fileIdx < nFiles THEN "std_file" ELSE "main_exit"
    /\ ClearSuite
    /\ ClearCase
    /\ UNCHANGED <<inputs, libv, runner, mainv, batchv, browserv, robustv>>

\* ------------------------------------------------------ Optimized Runner
\* batch_results.append(result) and batch_results.append(error_result) of
\* the batch loops.
record_result(br, f, res) == Append(br, suite_result(f, res))

\* Fault: the handler of the batch loop forgets the file that raised.
record_error_dropping(br, f) == br

record_error(br, f) == Append(br, error_result(f))

\* The except clause of the batch loop: the file that raised is recorded
\* and the loop goes on at next.
Batch_file_raised(next) ==
    /\ batch_results' = record_error(batch_results, fileIdx + 1)
    /\ fileIdx' = fileIdx + 1
    /\ pc' = next
    /\ exc' = None
    /\ UNCHANGED <<exit_code, top_exc, browser_started>>
    /\ ClearSuite
    /\ ClearCase

\* The finally clause of the batch loop.
finally_close(b, started, failAt) ==
    IF started THEN BrowserManager_close(b, failAt) ELSE b

\* _execute_test_suite_optimized makes a page when the session has none
\* or a closed one.
ensure_page(b) ==
    IF b.page = 0 \/ is_closed(b, b.page)
    THEN [NewPage(b) EXCEPT !.page = FreshPage(b)]
    ELSE b

\* run_test_files_batch up to the file loop: the model is loaded and the
\* session is started, outside the try statement.
Opt_run_test_files_batch ==
    /\ pc = "opt_batch"
    /\ flags' = NoFlags
    /\ closes' = closes
    /\ \E model_ok \in BOOLEAN, sf \in StartStages :
          IF ~model_ok
          THEN /\ Exit(1, "Exception", "load_model")
               /\ UNCHANGED <<bm, starts, browser_started>>
          ELSE /\ starts' = starts + 1
               /\ bm' = BrowserManager_start(bm, sf)
               /\ IF sf # 0
                  THEN /\ Exit(1, "Exception", "start")
                       /\ UNCHANGED browser_started
                  ELSE /\ browser_started' = TRUE
                       /\ pc' = "opt_files"
                       /\ UNCHANGED <<suitev, casev>>
                       /\ Running
    /\ UNCHANGED <<config, libv, runner, returned, all_tests_passed, fileIdx,
                   batch_results, robustv>>

\* The page of the session is closed from outside the runner, or stays.
page_effect(b, effect) ==
    IF effect = "closed" THEN [b EXCEPT !.open = @ \ {b.page}] ELSE b

\* What the site that is navigated to can do to the page it is loaded
\* in: a script of the site may close its window.
SiteEffects(base_url) == IF base_url THEN {"stays", "closed"} ELSE {"stays"}

\* The file loop enters the next file: _run_single_test_optimized up to
\* the case loop of _execute_test_suite_optimized.
Opt_run_single_test ==
    /\ pc = "opt_files"
    /\ fileIdx < nFiles
    /\ \E load_ok \in BOOLEAN, td \in TestData, base_url \in BOOLEAN,
          navigate_ok \in BOOLEAN :
       \E effect \in SiteEffects(base_url) :
          IF ~load_ok
          THEN /\ Batch_file_raised("opt_files")
               /\ UNCHANGED browserv
          ELSE /\ bm' = IF base_url
                        THEN page_effect(ensure_page(bm), effect)
                        ELSE bm
               /\ UNCHANGED <<starts, closes>>
               /\ IF base_url /\ ~navigate_ok
                  THEN Batch_file_raised("opt_files")
                  ELSE /\ test_data' = td
                       /\ results' = results_init
                       /\ pc' = "opt_cases"
                       /\ UNCHANGED <<batchv, casev>>
                       /\ Running
    /\ UNCHANGED <<inputs, libv, runner, returned, all_tests_passed, robustv>>

\* The suite loop enters the next case.
Opt_begin_test_case ==
    /\ pc = "opt_cases"
    /\ Len(results.test_cases) < test_data.ncases
    /\ \E tc \in TestCases :
          IF ~tc.is_dict
          THEN /\ Raise(NotAMapping, "opt_case_raised")
               /\ UNCHANGED casev
          ELSE /\ test_case' = tc
               /\ case_result' = case_result_init(tc)
               /\ StepLocals(NoStepResult, <<>>, NoOutcome)
               /\ pc' = "opt_steps"
               /\ Running
    /\ UNCHANGED <<inputs, libv, runner, returned, all_tests_passed, batchv,
                   suitev, browserv, robustv>>

\* One iteration of the step loop.
Opt_execute_step ==
    /\ pc = "opt_steps"
    /\ more_steps(case_result, test_case)
    /\ \E step \in Steps :
       \E action \in TranslatorAnswers(step),
          passed \in AssertionAnswers(step),
          capture_ok \in CaptureAnswers(screenshot_on_failure, test_case) :
       \E executor \in ExecutorAnswers(action) :
          LET idx == Len(case_result.steps)
              r == case_step(case_result, test_case, step, idx, action,
                             executor, passed, capture_ok,
                             screenshot_on_failure)
          IN  /\ case_result' = r.case
              /\ IF step.is_dict
                 THEN LET sr == execute_step(step, idx, action, executor,
                                             passed)
                      IN  StepLocals(sr,
                             settle(step_calls(step, idx, action), executor),
                             [step_outcome(step, action, executor, passed)
                                 EXCEPT !.capture =
                                     capture_outcome(test_case, step,
                                         sr.status, capture_ok,
                                         screenshot_on_failure)])
                 ELSE StepLocals(NoStepResult, <<>>,
                         [NoOutcome EXCEPT !.capture =
                             capture_outcome(test_case, step, "running",
                                 capture_ok, screenshot_on_failure)])
              /\ IF r.raised # None
                 THEN Raise(r.raised, "opt_case_raised")
                 ELSE Running /\ pc' = pc
    /\ UNCHANGED <<inputs, libv, runner, returned, all_tests_passed, batchv,
                   suitev, test_case, browserv, robustv>>

\* An exception left _execute_test_case: the batch loop's handler is the
\* first to catch it.
Opt_case_raises ==
    /\ pc = "opt_case_raised"
    /\ Batch_file_raised("opt_files")
    /\ UNCHANGED <<inputs, libv, runner, returned, all_tests_passed, browserv,
                   robustv>>

\* The step loop is left and the case returns its result.
Opt_end_test_case ==
    /\ pc = "opt_steps"
    /\ ~more_steps(case_result, test_case)
    /\ case_result' = case_end(case_result)
    /\ pc' = "opt_case_returned"
    /\ UNCHANGED <<inputs, libv, runner, mainv, batchv, suitev, test_case,
                   step_result, calls, outcome, browserv, robustv>>

\* The suite loop records the case result and updates the summary.
Opt_record_test_case ==
    /\ pc = "opt_case_returned"
    /\ results' = append_case(results, case_result)
    /\ pc' = "opt_cases"
    /\ ClearCase
    /\ UNCHANGED <<inputs, libv, runner, mainv, batchv, test_data, browserv,
                   robustv>>

\* The case loop is done and the suite returns its results.
Opt_end_test_suite ==
    /\ pc = "opt_cases"
    /\ Len(results.test_cases) = test_data.ncases
    /\ results' = [results EXCEPT !.ended = TRUE]
    /\ pc' = "opt_suite_returned"
    /\ UNCHANGED <<inputs, libv, runner, mainv, batchv, test_data, casev,
                   browserv, robustv>>

\* _run_single_test_optimized saves and returns the results, and the
\* batch loop appends them.
Opt_save_results ==
    /\ pc = "opt_suite_returned"
    /\ \E save_ok \in BOOLEAN :
          IF ~save_ok
          THEN Batch_file_raised("opt_files")
          ELSE /\ batch_results' =
                     record_result(batch_results, fileIdx + 1, results)
               /\ fileIdx' = fileIdx + 1
               /\ pc' = "opt_files"
               /\ ClearSuite
               /\ ClearCase
               /\ UNCHANGED browser_started
               /\ Running
    /\ UNCHANGED <<inputs, libv, runner, returned, all_tests_passed, browserv,
                   robustv>>

\* The file loop is done: the finally clause closes the session, the
\* batch returns its results (run_test_file: the only one) and main looks
\* at the summaries.
Opt_close_batch ==
    /\ pc = "opt_files"
    /\ fileIdx = nFiles
    /\ closes' = closes + 1
    /\ starts' = starts
    /\ \E cf \in CloseStages :
          /\ bm' = finally_close(bm, browser_started, cf)
          /\ IF cf # 0
             THEN /\ Exit(1, "Exception", "close")
                  /\ UNCHANGED <<returned, all_tests_passed, browser_started>>
             ELSE /\ browser_started' = FALSE
                  /\ returned' = batch_results
                  /\ all_tests_passed' =
                        check_results(batch_results, all_tests_passed)
                  /\ pc' = "main_exit"
                  /\ UNCHANGED <<suitev, casev>>
                  /\ Running
    /\ UNCHANGED <<inputs, libv, runner, fileIdx, batch_results, robustv>>

\* --------------------------------------------------------- Robust Runner
\* page.close() in the finally clause of _run_single_test_robust: it is
\* called for a page that exists and is open; when it raises, the page
\* stays open and a warning is logged.
close_page(b, p, ok) ==
    IF p # 0 /\ ~is_closed(b, p) /\ ok
    THEN [b EXCEPT !.open = @ \ {p}]
    ELSE b

\* self.browser_manager.page = original_page
restore_page(b, p) == [b EXCEPT !.page = p]

\* _execute_step_robust up to the call of execute_action: the step result
\* with the translator's action, or the failure of one of the checks.
execute_step_robust(step, idx, b, action) ==
    LET r0 == step_result_init(step, idx)
    IN  IF b.page = 0 \/ is_closed(b, b.page)
        THEN [r0 EXCEPT !.status = "failed", !.error = PageClosed,
                        !.ended = TRUE]
        ELSE IF step.instruction = <<>>
        THEN [r0 EXCEPT !.status = "failed", !.error = NoInstruction,
                        !.ended = TRUE]
        ELSE [r0 EXCEPT !.action = action]

\* Fault: the step ignores that the timer fired.
resolve_action_timer_ignored(sr, how) ==
    [sr EXCEPT !.status = IF how = "raises" THEN "failed" ELSE "passed",
               !.error = IF how = "raises" THEN EngineError ELSE None,
               !.ended = TRUE]

\* The end of the race of asyncio.wait_for and what follows it: how is
\* "returns", "raises" or "timeout".
resolve_action(sr, how) ==
    [sr EXCEPT !.status = IF how = "returns" THEN "passed" ELSE "failed",
               !.error = IF how = "returns" THEN None
                         ELSE IF how = "raises" THEN EngineError
                         ELSE TimedOut(sr.action),
               !.ended = TRUE]

\* Fault: the action executor is called retry_count times for a step.
step_calls_robust_retrying(step, idx, action) ==
    LET c(k, a) == [step |-> idx, kind |-> k,
                    instruction |-> step.instruction, arg |-> a]
    IN  <<c("translate", None)>>
            \o [i \in 1..retry_count |-> c("action", action)]

\* The calls _execute_step_robust makes for a step it takes to the action
\* executor.
step_calls_robust(step, idx, action) ==
    LET c(k, a) == [step |-> idx, kind |-> k,
                    instruction |-> step.instruction, arg |-> a]
    IN  <<c("translate", None), c("action", action)>>

\* The except clause of the step loop of _execute_test_case_robust.
record_error_step(cr, idx) ==
    [cr EXCEPT !.steps = Append(@, [index |-> idx, status |-> "error"]),
               !.status = "error"]

\* The robust translator is asked for every instruction that is not empty.
RobustTranslatorAnswers(step) ==
    IF step.is_dict /\ step.instruction # <<>> THEN ActionTypes ELSE {None}

\* Fault: the exception of close() leaves the finally clause.
close_warning_raising(failAt) == IF failAt # 0 THEN "close" ELSE None

\* The try statement around close() in the finally clause of the batch:
\* what propagates when close() ended at failAt.  The handler logs a
\* warning and lets nothing through.
close_warning(failAt) == None

\* run_test_files_batch up to the file loop.
Rob_run_test_files_batch ==
    /\ pc = "rob_batch"
    /\ flags' = NoFlags
    /\ closes' = closes
    /\ \E model_ok \in BOOLEAN, sf \in StartStages :
          IF ~model_ok
          THEN /\ Exit(1, "Exception", "load_model")
               /\ UNCHANGED <<bm, starts, browser_started>>
          ELSE /\ starts' = starts + 1
               /\ bm' = BrowserManager_start(bm, sf)
               /\ IF sf # 0
                  THEN /\ Exit(1, "Exception", "start")
                       /\ UNCHANGED browser_started
                  ELSE /\ browser_started' = TRUE
                       /\ pc' = "rob_files"
                       /\ UNCHANGED <<suitev, casev>>
                       /\ Running
    /\ UNCHANGED <<config, libv, runner, returned, all_tests_passed, fileIdx,
                   batch_results, robustv>>

\* Fault: the failed navigation is not counted.
navigation_failed_uncounted(res) == [res EXCEPT !.ended = TRUE]

\* The except clause around the navigation to the base URL: the suite
\* result is returned at once, with one error more.
navigation_failed(res) ==
    [res EXCEPT !.summary.errors = @ + 1, !.ended = TRUE]

\* The file loop enters the next file: _run_single_test_robust up to the
\* case loop of _execute_test_suite_robust.  page and original_page keep
\* their values from here until the next file is entered.
Rob_run_single_test ==
    /\ pc = "rob_files"
    /\ fileIdx < nFiles
    /\ pending' = None
    /\ UNCHANGED <<starts, closes>>
    /\ \E load_ok \in BOOLEAN, new_page_ok \in BOOLEAN, td \in TestData,
          base_url \in BOOLEAN, navigate_ok \in BOOLEAN :
          IF ~load_ok \/ ~new_page_ok
          THEN /\ Batch_file_raised("rob_files")
               /\ page' = 0
               /\ original_page' = 0
               /\ bm' = bm
          ELSE /\ page' = FreshPage(bm)
               /\ original_page' = bm.page
               /\ bm' = [NewPage(bm) EXCEPT !.page = FreshPage(bm)]
               /\ test_data' = td
               /\ IF base_url /\ ~navigate_ok
                  THEN /\ results' = navigation_failed(results_init)
                       /\ outcome' = [NoOutcome EXCEPT !.navigate = "raises"]
                       /\ pc' = "rob_suite_returned"
                  ELSE /\ results' = results_init
                       /\ outcome' = NoOutcome
                       /\ pc' = "rob_cases"
               /\ UNCHANGED <<batchv, test_case, case_result, step_result,
                              calls>>
               /\ Running
    /\ UNCHANGED <<inputs, libv, runner, returned, all_tests_passed>>

\* The suite loop enters the next case.  test_case.get of the loop's
\* first statement is outside the try statement.
Rob_begin_test_case ==
    /\ pc = "rob_cases"
    /\ Len(results.test_cases) < test_data.ncases
    /\ \E tc \in TestCases :
          IF ~tc.is_dict
          THEN /\ Raise(NotAMapping, "rob_file_raised")
               /\ UNCHANGED casev
          ELSE /\ test_case' = tc
               /\ case_result' = case_result_init(tc)
               /\ StepLocals(NoStepResult, <<>>, NoOutcome)
               /\ pc' = "rob_steps"
               /\ Running
    /\ UNCHANGED <<inputs, libv, runner, returned, all_tests_passed, batchv,
                   suitev, browserv, robustv>>

\* An exception left _execute_test_suite_robust: _run_single_test_robust
\* logs and re-raises it, its finally clause closes the page, and the
\* batch loop's handler records the file.
Rob_file_raises ==
    /\ pc = "rob_file_raised"
    /\ \E close_ok \in BOOLEAN :
          bm' = close_page(bm, page, close_ok)
    /\ Batch_file_raised("rob_files")
    /\ UNCHANGED <<inputs, libv, runner, returned, all_tests_passed, starts,
                   closes, robustv>>

\* One iteration of the step loop, up to the call of execute_action
\* under asyncio.wait_for.
Rob_execute_step ==
    /\ pc = "rob_steps"
    /\ more_steps(case_result, test_case)
    /\ \E step \in Steps :
       \E action \in RobustTranslatorAnswers(step) :
          LET idx == Len(case_result.steps)
              sr == execute_step_robust(step, idx, bm, action)
          IN  IF ~step.is_dict
              THEN /\ case_result' = record_error_step(case_result, idx)
                   /\ StepLocals(NoStepResult, <<>>, NoOutcome)
                   /\ UNCHANGED <<pc, pending>>
              ELSE IF sr.ended
              THEN /\ case_result' = record_step(case_result, sr)
                   /\ StepLocals(sr, <<>>, NoOutcome)
                   /\ UNCHANGED <<pc, pending>>
              ELSE /\ StepLocals(sr, step_calls_robust(step, idx, action),
                                 [NoOutcome EXCEPT !.action = action])
                   /\ pending' = action
                   /\ pc' = "rob_action"
                   /\ UNCHANGED case_result
    /\ UNCHANGED <<inputs, libv, runner, mainv, batchv, suitev, test_case,
                   browserv, page, original_page>>

\* What an executed action can do to the page it works on: a click that
\* returns may have closed the page (the site closes its window); an
\* action of an unrecognized type performs no page operation.
PageEffects(action, how) ==
    IF action \in RecognizedActionTypes /\ how = "returns"
    THEN {"stays", "closed"}
    ELSE {"stays"}

\* The race of asyncio.wait_for ends and the rest of the iteration runs.
Rob_resolve(how) ==
    /\ pc = "rob_action"
    /\ \E effect \in PageEffects(pending, how) :
          bm' = page_effect(bm, effect)
    /\ UNCHANGED <<starts, closes>>
    /\ step_result' = resolve_action(step_result, how)
    /\ case_result' = record_step(case_result, step_result')
    /\ outcome' = [outcome EXCEPT !.executor = how]
    /\ pending' = None
    /\ pc' = "rob_steps"
    /\ UNCHANGED <<inputs, libv, runner, mainv, batchv, suitev, test_case, calls,
                   page, original_page>>

\* execute_action returns before the timer fires.
Rob_action_returns ==
    /\ "returns" \in ExecutorAnswers(pending)
    /\ Rob_resolve("returns")

\* execute_action raises before the timer fires.
Rob_action_raises ==
    /\ "raises" \in ExecutorAnswers(pending)
    /\ Rob_resolve("raises")

\* The timer fires first: asyncio.TimeoutError becomes RuntimeError.
Rob_timer_fires ==
    /\ pending # None
    /\ Rob_resolve("timeout")

\* The step loop is left and the case returns its result.
Rob_end_test_case ==
    /\ pc = "rob_steps"
    /\ ~more_steps(case_result, test_case)
    /\ case_result' = case_end(case_result)
    /\ pc' = "rob_case_returned"
    /\ UNCHANGED <<inputs, libv, runner, mainv, batchv, suitev, test_case,
                   step_result, calls, outcome, browserv, robustv>>

\* The suite loop records the case result and updates the summary.
Rob_record_test_case ==
    /\ pc = "rob_case_returned"
    /\ results' = append_case(results, case_result)
    /\ pc' = "rob_cases"
    /\ ClearCase
    /\ UNCHANGED <<inputs, libv, runner, mainv, batchv, test_data, browserv,
                   robustv>>

\* The case loop is done and the suite returns its results.
Rob_end_test_suite ==
    /\ pc = "rob_cases"
    /\ Len(results.test_cases) = test_data.ncases
    /\ results' = [results EXCEPT !.ended = TRUE]
    /\ pc' = "rob_suite_returned"
    /\ UNCHANGED <<inputs, libv, runner, mainv, batchv, test_data, casev,
                   browserv, robustv>>

\* _run_single_test_robust after the suite returned: the page is
\* restored and the results are saved.
Rob_save_results ==
    /\ pc = "rob_suite_returned"
    /\ bm' = restore_page(bm, original_page)
    /\ \E save_ok \in BOOLEAN :
          IF ~save_ok
          THEN Raise("save", "rob_file_raised")
          ELSE pc' = "rob_file_returning" /\ Running
    /\ UNCHANGED <<inputs, libv, runner, returned, all_tests_passed, batchv,
                   suitev, casev, starts, closes, robustv>>

\* _run_single_test_robust returns: its finally clause closes the page
\* and the batch loop appends the result.
Rob_return_results ==
    /\ pc = "rob_file_returning"
    /\ \E close_ok \in BOOLEAN :
          bm' = close_page(bm, page, close_ok)
    /\ batch_results' = record_result(batch_results, fileIdx + 1, results)
    /\ fileIdx' = fileIdx + 1
    /\ pc' = "rob_files"
    /\ ClearSuite
    /\ ClearCase
    /\ Running
    /\ UNCHANGED <<inputs, libv, runner, returned, all_tests_passed,
                   browser_started, starts, closes, robustv>>

\* The file loop is done: the finally clause closes the session (an
\* exception of close is logged as a warning), the batch returns its
\* results and main looks at the summaries.
Rob_close_batch ==
    /\ pc = "rob_files"
    /\ fileIdx = nFiles
    /\ closes' = closes + 1
    /\ starts' = starts
    /\ \E cf \in CloseStages :
          /\ bm' = finally_close(bm, browser_started, cf)
          /\ IF close_warning(cf) # None
             THEN /\ Exit(1, "Exception", close_warning(cf))
                  /\ UNCHANGED <<returned, all_tests_passed, browser_started>>
             ELSE /\ browser_started' = FALSE
                  /\ returned' = batch_results
                  /\ all_tests_passed' =
                        check_results(batch_results, all_tests_passed)
                  /\ pc' = "main_exit"
                  /\ UNCHANGED <<suitev, casev>>
                  /\ Running
    /\ UNCHANGED <<inputs, libv, runner, fileIdx, batch_results, robustv>>

\* ------------------------------------------------------ interactive mode
\* run_interactive up to the input loop of _interactive_session.
Interactive_start ==
    /\ pc = "interactive"
    /\ flags' = NoFlags
    /\ \E model_ok \in BOOLEAN, sf \in StartStages, navigate_ok \in BOOLEAN,
          cf \in CloseStages :
          IF ~model_ok
          THEN /\ Exit(1, "Exception", "load_model")
               /\ UNCHANGED browserv
          ELSE IF sf # 0
          THEN /\ bm' = BrowserManager_start(bm, sf)
               /\ starts' = starts + 1
               /\ closes' = closes
               /\ Exit(1, "Exception", "start")
          ELSE IF ~navigate_ok
          THEN /\ bm' = BrowserManager_close(BrowserManager_start(bm, sf), cf)
               /\ starts' = starts + 1
               /\ closes' = closes + 1
               /\ Exit(1, "Exception", "navigate")
          ELSE /\ bm' = BrowserManager_start(bm, sf)
               /\ starts' = starts + 1
               /\ closes' = closes
               /\ pc' = "interactive_loop"
               /\ UNCHANGED <<suitev, casev>>
               /\ Running
    /\ UNCHANGED <<config, libv, runner, returned, all_tests_passed, batchv,
                   robustv>>

PageInfoError == "'dict' object is not callable"

\* Fault: the line is compared with the words as it was typed.
leaves_as_typed(instruction) == instruction \in {<<"exit">>, <<"quit">>}

\* instruction.lower() in ['exit', 'quit']
leaves(instruction) ==
    [i \in DOMAIN instruction |-> lower(instruction[i])]
        \in {<<"exit">>, <<"quit">>}

\* What get_page_info can answer after an instruction that was executed
\* without an exception: it is asked for nothing otherwise.
PageInfoAnswers(instruction, executor) ==
    IF assertion_pattern_matcher[instruction].error # None
          \/ executor = "raises"
    THEN {None}
    ELSE {"returns", "raises"}

\* The calls of one turn of the loop for a line that is executed.
interactive_calls(instruction, action, page_info) ==
    LET cs == step_calls([is_dict |-> TRUE, instruction |-> instruction],
                         0, action)
    IN  IF page_info = None THEN cs
        ELSE Append(cs, [step |-> 0, kind |-> "get_page_info",
                         instruction |-> instruction, arg |-> None])

\* The exception of the turn, which the except clause prints: of parse(),
\* of execute_action or of get_page_info.
interactive_error(instruction, executor, page_info) ==
    IF assertion_pattern_matcher[instruction].error # None
    THEN assertion_pattern_matcher[instruction].error
    ELSE IF executor = "raises" THEN EngineError
    ELSE IF page_info = "raises" THEN PageInfoError
    ELSE None

\* One turn of the loop that does not leave it: a line that is neither
\* exit nor quit is read; an empty one is skipped, another is executed
\* as an assertion or an action and the page is described; an exception
\* is printed.
Interactive_instruction ==
    /\ pc = "interactive_loop"
    /\ \E line \in Lines :
          LET instruction == str_strip(line)
              step == [is_dict |-> TRUE, instruction |-> instruction]
          IN  /\ ~leaves(instruction)
              /\ IF instruction = <<>>
                 THEN /\ interactive' =
                           [NoInteraction EXCEPT !.instruction = instruction]
                      /\ calls' = <<>>
                      /\ outcome' = NoOutcome
                 ELSE \E action \in TranslatorAnswers(step),
                         passed \in AssertionAnswers(step) :
                      \E executor \in ExecutorAnswers(action) :
                      \E page_info \in PageInfoAnswers(instruction, executor) :
                         /\ interactive' =
                               [NoInteraction EXCEPT
                                  !.instruction = instruction,
                                  !.page_info = page_info,
                                  !.reported =
                                      interactive_error(instruction, executor,
                                                        page_info)]
                         /\ calls' = interactive_calls(instruction, action,
                                                       page_info)
                         /\ outcome' = step_outcome(step, action, executor,
                                                    passed)
    /\ UNCHANGED <<inputs, assertion_pattern_matcher, arg, ret, file, pc,
                   runner, mainv, batchv, suitev, test_case, case_result,
                   step_result, browserv, robustv>>

\* The loop is left and the scoped session of run_interactive is closed:
\* exit or quit was read, or the user's interrupt arrived, which either
\* the loop's handler catches (break) or, as the cancellation asyncio.run
\* makes of it, leaves run_interactive and reaches main's handler.
Interactive_exit ==
    /\ pc = "interactive_loop"
    /\ closes' = closes + 1
    /\ starts' = starts
    /\ \E way \in {"word", "break", "cancelled"}, cf \in CloseStages :
          /\ IF way = "word"
             THEN \E line \in Lines :
                     /\ leaves(str_strip(line))
                     /\ interactive' =
                           [interactive EXCEPT
                              !.instruction = str_strip(line),
                              !.left = TRUE]
             ELSE interactive' =
                     [interactive EXCEPT !.left = TRUE, !.interrupted = TRUE]
          /\ bm' = BrowserManager_close(bm, cf)
          /\ IF cf # 0
             THEN Exit(1, "Exception", "close")
             ELSE IF way = "cancelled"
             THEN Exit(0, "KeyboardInterrupt", "interrupt")
             ELSE /\ pc' = "main_exit"
                  /\ ClearSuite
                  /\ ClearCase
                  /\ Running
    /\ UNCHANGED <<inputs, assertion_pattern_matcher, arg, ret, file, runner,
                   returned, all_tests_passed, batchv, robustv>>

\* ------------------------------------------------------ keyboard interrupt
\* Where the user's interrupt can arrive while a runner works on files.
InScopedSession ==
    {"std_suite", "std_cases", "std_steps", "std_case_returned",
     "std_case_raised",
     "opt_files", "opt_cases", "opt_steps", "opt_case_returned",
     "opt_case_raised", "opt_suite_returned"}

InRobustBatch ==
    {"rob_files", "rob_cases", "rob_steps", "rob_action",
     "rob_case_returned", "rob_file_raised", "rob_suite_returned",
     "rob_file_returning"}

OutsideSession ==
    {"std_file", "std_returned", "opt_batch", "rob_batch", "interactive"}

\* KeyboardInterrupt is no Exception: no handler of the runners catches
\* it, so the frames of the runner are left and the cleanup clauses on
\* its way are what runs next.
Interrupt ==
    /\ pc \in InScopedSession \cup InRobustBatch \cup OutsideSession
    /\ flags' = NoFlags
    /\ pc' = IF pc \in OutsideSession THEN "interrupted"
             ELSE IF pc \in InScopedSession THEN "interrupted_in_session"
             ELSE "interrupted_in_robust_batch"
    /\ exc' = "KeyboardInterrupt"
    /\ page' = IF pc = "rob_files" THEN 0 ELSE page
    /\ original_page' = IF pc = "rob_files" THEN 0 ELSE original_page
    /\ pending' = None
    /\ ClearSuite
    /\ ClearCase
    /\ UNCHANGED <<config, libv, runner, returned, all_tests_passed, exit_code,
                   top_exc, batchv, browserv>>

\* The cleanup clauses run and main's handler logs the interrupt: the
\* process ends without the failure code.  An exception raised by a
\* cleanup clause replaces the interrupt.
Interrupt_cleanup ==
    /\ starts' = starts
    /\ \/ /\ pc = "interrupted"
          /\ Exit(0, "KeyboardInterrupt", "interrupt")
          /\ UNCHANGED <<bm, closes, browser_started>>
       \/ /\ pc = "interrupted_in_session"
          /\ \E cf \in CloseStages :
                /\ bm' = BrowserManager_close(bm, cf)
                /\ IF cf # 0
                   THEN Exit(1, "Exception", "close")
                   ELSE Exit(0, "KeyboardInterrupt", "interrupt")
          /\ closes' = closes + 1
          /\ UNCHANGED browser_started
       \/ /\ pc = "interrupted_in_robust_batch"
          /\ \E cf \in CloseStages, close_ok \in BOOLEAN :
                bm' = finally_close(close_page(bm, page, close_ok),
                                    browser_started, cf)
          /\ closes' = closes + 1
          /\ browser_started' = FALSE
          /\ Exit(0, "KeyboardInterrupt", "interrupt")
    /\ UNCHANGED <<inputs, libv, runner, returned, all_tests_passed, fileIdx,
                   batch_results, robustv>>

\* ------------------------------------------------------------------- Spec
Next ==
    \/ Main_select_runner
    \/ Main_exit
    \/ Std_run_test_file
    \/ Std_execute_test_suite
    \/ Std_begin_test_case
    \/ Std_execute_step
    \/ Std_case_raises
    \/ Std_end_test_case
    \/ Std_record_test_case
    \/ Std_end_test_suite
    \/ Std_next_file
    \/ Opt_run_test_files_batch
    \/ Opt_run_single_test
    \/ Opt_begin_test_case
    \/ Opt_execute_step
    \/ Opt_case_raises
    \/ Opt_end_test_case
    \/ Opt_record_test_case
    \/ Opt_end_test_suite
    \/ Opt_save_results
    \/ Opt_close_batch
    \/ Rob_run_test_files_batch
    \/ Rob_run_single_test
    \/ Rob_begin_test_case
    \/ Rob_file_raises
    \/ Rob_execute_step
    \/ Rob_action_returns
    \/ Rob_action_raises
    \/ Rob_timer_fires
    \/ Rob_end_test_case
    \/ Rob_record_test_case
    \/ Rob_end_test_suite
    \/ Rob_save_results
    \/ Rob_return_results
    \/ Rob_close_batch
    \/ Interactive_start
    \/ Interactive_instruction
    \/ Interactive_exit
    \/ Interrupt
    \/ Interrupt_cleanup

Spec == Init /\ [][Next]_vars

\* ------------------------------------------------------------- properties
FailedSteps(cr) == {i \in DOMAIN cr.steps : cr.steps[i].status = "failed"}

StatusCount(cs, st) == Cardinality({i \in DOMAIN cs : cs[i].status = st})

\* main saw a suite summary with failed > 0 or errors > 0.
SawFailures ==
    \E i \in DOMAIN returned :
        returned[i].summary.failed > 0 \/ returned[i].summary.errors > 0

\* C1: in every runner the recorded steps of a case are in file order
\* (the entry at position i is step i), a step with status failed is the
\* last step of the case that is executed (no translator, action or
\* assertion call belongs to a later step), and the case's status is then
\* failed.
C1_StepsInOrderUntilFirstFailure ==
    /\ \A i \in DOMAIN case_result.steps : case_result.steps[i].index = i - 1
    /\ \A i \in FailedSteps(case_result) :
          /\ i = Len(case_result.steps)
          /\ \A k \in DOMAIN calls :
                calls[k].step <= case_result.steps[i].index
          /\ case_result.status = "failed"

\* C2: in the Standard Runner the suite never stops because of a case
\* outcome: a case that has failed or ended with status error returns its
\* result to the suite loop (no exception of it leaves the suite), and a
\* suite that returns has one case result for every case of the file.
C2_SuiteContinuesAfterEveryCase ==
    runner = "standard" =>
        /\ ~(pc = "std_case_raised"
                /\ case_result.status \in {"failed", "error"})
        /\ pc = "std_returned" =>
              Len(results.test_cases) = test_data.ncases

\* C3: the summary a Standard or Optimized suite returns has total = the
\* number of test cases of the file, passed = the number of case results
\* with status passed, failed = the number with status failed, errors =
\* the number with any other status.
C3_SummaryCounts ==
    (runner \in {"standard", "optimized"} /\ results.ended) =>
        /\ results.summary.total = test_data.ncases
        /\ results.summary.passed =
              StatusCount(results.test_cases, "passed")
        /\ results.summary.failed =
              StatusCount(results.test_cases, "failed")
        /\ results.summary.errors =
              Len(results.test_cases)
                  - StatusCount(results.test_cases, "passed")
                  - StatusCount(results.test_cases, "failed")

\* A two-case suite, first case passed, second failed, with the summary
\* {total: 2, passed: 1, failed: 1, errors: 0}.
C3_TwoCaseSuite ==
    /\ runner = "standard"
    /\ results.ended
    /\ results.test_cases = <<[status |-> "passed"], [status |-> "failed"]>>
    /\ results.summary =
          [total |-> 2, passed |-> 1, failed |-> 1, errors |-> 0]

\* C4 as stated: the process exits with 1 if a suite summary main saw
\* reports failed > 0 or errors > 0 or if an exception reaches the top
\* level, with 0 on full success and on the exit of the interactive mode,
\* and a keyboard interrupt does not give the failure code.
C4_ExitCodeAsStated ==
    pc = "exited" =>
        /\ (SawFailures \/ top_exc = "Exception") => exit_code = 1
        /\ (top_exc = None /\ ~SawFailures) => exit_code = 0
        /\ top_exc = "KeyboardInterrupt" => exit_code # 1

\* C4: for every runner selection, an exception that reaches the top
\* level gives exit code 1; a keyboard interrupt gives exit code 0, also
\* after a suite that reported failures; a run that ends normally gives 1
\* if a suite summary main saw reports failed > 0 or errors > 0, and 0
\* otherwise (full success, exit of the interactive mode).
C4_ExitCode ==
    pc = "exited" =>
        /\ top_exc = "Exception" => exit_code = 1
        /\ top_exc = "KeyboardInterrupt" => exit_code = 0
        /\ (top_exc = None /\ SawFailures) => exit_code = 1
        /\ (top_exc = None /\ ~SawFailures) => exit_code = 0

\* A batch that returned a suite with failures ends with exit code 1.
C4_FailuresGiveExitCode1 ==
    /\ pc = "exited"
    /\ runner = "optimized"
    /\ top_exc = None
    /\ SawFailures
    /\ exit_code = 1

\* C5: in every runner a step is an assertion or an action as the pattern
\* matcher says: the translator and the action executor are called only
\* for an instruction parse() answers None for, the assertion executor
\* only for one it answers a value for.
C5_AssertionOrActionByParse ==
    \A k \in DOMAIN calls :
        /\ calls[k].kind \in {"translate", "action"} =>
              assertion_pattern_matcher[calls[k].instruction] = NoAssertion
        /\ calls[k].kind = "assertion" =>
              assertion_pattern_matcher[calls[k].instruction].type # None

\* C6: a step of the Standard Runner whose instruction is not empty and
\* not recognized by the pattern matcher stores the translator's action
\* and passes it to the action executor; it is passed if the executor
\* returns, failed with the exception's message as error if it raises;
\* natural_language is the instruction, and the step result is recorded
\* in the case (the exception does not leave the step).
C6_UnrecognizedInstructionStep ==
    (/\ runner = "standard"
     /\ step_result.ended
     /\ step_result.natural_language # <<>>
     /\ assertion_pattern_matcher[step_result.natural_language].type = None) =>
        /\ step_result.action = outcome.action
        /\ \E k \in DOMAIN calls :
              /\ calls[k].kind = "action"
              /\ calls[k].arg = outcome.action
              /\ calls[k].instruction = step_result.natural_language
        /\ outcome.executor \in {"returns", "raises"}
        /\ outcome.executor = "returns" =>
              step_result.status = "passed" /\ step_result.error = None
        /\ outcome.executor = "raises" =>
              step_result.status = "failed"
                  /\ step_result.error = EngineError
        /\ Len(case_result.steps) = step_result.index + 1
        /\ case_result.steps[Len(case_result.steps)].status =
              step_result.status
        /\ exc # EngineError

\* C7: a call of the Optimized Runner's run_test_files_batch with files
\* that has come to the session start and is over has started the
\* session once and closed it once.
C7_OneStartOneClose ==
    (runner = "optimized" /\ starts > 0 /\ pc \in {"main_exit", "exited"}) =>
        starts = 1 /\ closes = 1

\* C8: the batch of the Optimized and the Robust Runner has, at every
\* moment, one result for each file it is done with, in the order of the
\* files (so a file begins only when all files before it have their
\* result, an error result if they raised), and it returns one result
\* per file.
C8_OneResultPerFileInOrder ==
    runner \in {"optimized", "robust"} =>
        /\ Len(batch_results) = fileIdx
        /\ fileIdx <= nFiles
        /\ \A i \in DOMAIN batch_results : batch_results[i].file = i
        /\ pc = "main_exit" =>
              /\ returned = batch_results
              /\ Len(returned) = nFiles

\* A batch of two files whose first file raised and whose second file
\* ran has returned.
C8_ErrorThenSuite ==
    /\ pc = "main_exit"
    /\ runner = "optimized"
    /\ Len(returned) = 2
    /\ returned[1].kind = "error"
    /\ returned[2].kind = "suite"

\* C9: in the Robust Runner a step whose action did not finish before the
\* timer fired is recorded as failed, with an error that names the
\* action, and nothing propagates: the step loop goes on to the end of
\* the case.
C9_TimeoutFailsStep ==
    (runner = "robust" /\ outcome.executor = "timeout") =>
        /\ step_result.ended
        /\ step_result.status = "failed"
        /\ step_result.action = outcome.action
        /\ step_result.error = TimedOut(outcome.action)
        /\ Len(case_result.steps) = step_result.index + 1
        /\ case_result.steps[Len(case_result.steps)].status = "failed"
        /\ pc \in {"rob_steps", "rob_case_returned"}
        /\ exc = None

\* The timer fired for a click.
C9_TimerFired ==
    /\ runner = "robust"
    /\ outcome.executor = "timeout"
    /\ outcome.action = "click"
    /\ step_result.status = "failed"

\* C10: in the Robust Runner, when a file is done (completed or failed
\* with an exception), the active page of the session is the page that
\* was active before the file and the page opened for the file is closed.
C10_PageRestoredAndClosed ==
    (runner = "robust" /\ pc = "rob_files" /\ page # 0) =>
        /\ bm.page = original_page
        /\ is_closed(bm, page)

\* C11: in the Robust Runner an unexpected exception is contained at the
\* level it is raised at: a step that crashed is a step entry with status
\* error in its case, an exception raised while the suite works on a case
\* does not leave the suite (the only exception that leaves a file is one
\* of the file itself, the save of its results), a suite that returns
\* from its case loop has one case result for every case of the file, and
\* nothing but the model load and the session start ends the batch with
\* an exception.
C11_ContainedAtItsLevel ==
    runner = "robust" =>
        /\ \A i \in DOMAIN case_result.steps :
              case_result.steps[i].status = "error" =>
                  /\ case_result.status = "error"
                  /\ pc \in {"rob_steps", "rob_case_returned"}
        /\ pc = "rob_file_raised" => exc = "save"
        /\ (pc = "rob_suite_returned" /\ results.summary.total > 0) =>
              Len(results.test_cases) = test_data.ncases
        /\ (pc = "exited" /\ top_exc = "Exception") =>
              exc \in {"load_model", "start"}

\* C12: in the Robust Runner an exception of the session's close() in the
\* teardown of the batch does not leave run_test_files_batch: the batch
\* has closed once, returns the results it accumulated, one per file, and
\* no run of the Robust Runner ends with the exception of close().
C12_CloseFailureIsWarning ==
    runner = "robust" =>
        /\ pc = "main_exit" =>
              /\ closes = 1
              /\ ~browser_started
              /\ returned = batch_results
              /\ Len(returned) = nFiles
              /\ exc = None
        /\ pc = "exited" => exc # "close"

\* The batch of two files returned its results although close() raised
\* at its first release and left the session's resources live.
C12_CloseRaisedResultsReturned ==
    /\ runner = "robust"
    /\ pc = "main_exit"
    /\ closes = 1
    /\ bm.live = {"playwright", "browser", "context"}
    /\ bm.page \in bm.open
    /\ Len(returned) = 2

\* C13: when a scoped block of the session manager has been left (the
\* Standard Runner between two files, after the interactive session, at
\* main's exit and at the end of the process, whether the body succeeded, the body raised or start()
\* failed part-way), every resource the session acquired is released: no
\* page is open and the context, the browser and the engine are not live.
C13_ScopedBlockReleasesAll ==
    (runner = "standard" /\ starts > 0
        /\ pc \in {"std_returned", "main_exit", "exited"}) =>
        /\ bm.open = {}
        /\ bm.live = {}

\* C33: the interactive session reads lines until one is exit or quit in
\* any letter case or an interrupt arrives: a turn that stays in the loop
\* has read no such word, and the loop is left for no other reason; an
\* empty line makes no call and reports nothing; an exception raised while
\* a line is executed (by parse(), execute_action or get_page_info) is
\* reported and the loop goes on; when the loop has been left, the
\* session has been closed.
C33_InteractiveLoop ==
    LET instruction == interactive.instruction
        read == instruction # NoInteraction.instruction
        ends == [i \in DOMAIN instruction |-> lower(instruction[i])]
                    \in {<<"exit">>, <<"quit">>}
    IN  /\ (pc = "interactive_loop" /\ read) => ~ends
        /\ interactive.left =>
              /\ interactive.interrupted \/ ends
              /\ pc \in {"main_exit", "exited"}
              /\ starts = 1
              /\ closes = 1
        /\ (pc = "interactive_loop" /\ instruction = <<>>) =>
              /\ calls = <<>>
              /\ interactive.reported = None
        /\ (pc = "interactive_loop" /\ read /\ instruction # <<>>) =>
              /\ assertion_pattern_matcher[instruction].error # None =>
                    interactive.reported =
                        assertion_pattern_matcher[instruction].error
              /\ outcome.executor = "raises" =>
                    interactive.reported = EngineError
              /\ interactive.page_info = "raises" =>
                    interactive.reported = PageInfoError

\* An instruction raised and was reported, the loop went on, and then
\* Quit ended the session, which was closed.
C33_QuitAfterReportedError ==
    /\ pc = "main_exit"
    /\ interactive.left
    /\ ~interactive.interrupted
    /\ interactive.instruction = <<"Quit">>
    /\ interactive.reported # None
    /\ closes = 1
    /\ bm.live = {}

\* C34: in the Standard and the Optimized Runner a step that was
\* evaluated as an assertion has status passed exactly when the assertion
\* result's passed flag is true; when the flag is false the status is
\* failed and the step's error is the assertion result's error message;
\* the step made no translator call and no settle pause.
C34_AssertionDecidesStep ==
    (/\ runner \in {"standard", "optimized"}
     /\ step_result.ended
     /\ \E k \in DOMAIN calls : calls[k].kind = "assertion") =>
        /\ step_result.assertion_result.passed = outcome.passed
        /\ step_result.status = "passed" <=> outcome.passed
        /\ ~outcome.passed =>
              /\ step_result.status = "failed"
              /\ step_result.error =
                    step_result.assertion_result.error_message
        /\ \A k \in DOMAIN calls : calls[k].kind \notin {"translate", "sleep"}

C34_FalseAssertionFailedStep ==
    /\ runner = "optimized"
    /\ step_result.ended
    /\ \E k \in DOMAIN calls : calls[k].kind = "assertion"
    /\ ~outcome.passed
    /\ step_result.status = "failed"
    /\ step_result.error = AssertionFailed
    /\ case_result.steps # <<>>
    /\ case_result.steps[Len(case_result.steps)].status = "failed"
    /\ case_result.status = "failed"

\* C35: in the Robust Runner, when the navigation to the base URL of a
\* suite raises, the suite result is returned with one error counted and
\* without any test case executed or recorded, the exception of the
\* navigation does not propagate, the result is appended to the results
\* of the batch and the file loop goes on with the next file.
C35_NavigationFailureContained ==
    /\ [](outcome.navigate = "raises" =>
            /\ runner = "robust"
            /\ pc \in {"rob_suite_returned", "rob_file_returning",
                        "rob_file_raised"}
            /\ exc = IF pc = "rob_file_raised" THEN "save" ELSE None
            /\ results.ended
            /\ results.test_cases = <<>>
            /\ results.summary =
                  [total |-> 0, passed |-> 0, failed |-> 0, errors |-> 1]
            /\ case_result = NoCaseResult
            /\ calls = <<>>)
    /\ [][(/\ pc = "rob_file_returning"
           /\ outcome.navigate = "raises"
           /\ exc' # "KeyboardInterrupt") =>
              /\ pc' = "rob_files"
              /\ fileIdx' = fileIdx + 1
              /\ batch_results' =
                    Append(batch_results,
                           [kind |-> "suite", file |-> fileIdx + 1,
                            summary |-> [failed |-> 0, errors |-> 1]])]_vars

C35_NavigationFailedSuiteReturned ==
    /\ runner = "robust"
    /\ nFiles = 2
    /\ fileIdx = 0
    /\ pc = "rob_file_returning"
    /\ outcome.navigate = "raises"
    /\ results.summary.errors = 1
    /\ exc = None

\* C36 as stated: in the suite result of each of the three runners, at
\* every point of the run, summary.total = summary.passed + summary.failed
\* + summary.errors = the number of case results recorded in test_cases.
C36_SummaryConsistent ==
    /\ results.summary.total =
          results.summary.passed + results.summary.failed
              + results.summary.errors
    /\ results.summary.total = Len(results.test_cases)

\* C36: in the suite result of each of the three runners, at every point
\* of the run, summary.total is the number of case results recorded in
\* test_cases, and summary.passed + summary.failed + summary.errors is
\* summary.total, but for the suite of the Robust Runner whose navigation
\* to the base URL failed, where it is one more (total 0, errors 1).
C36_SummaryCountsCases ==
    /\ results.summary.total = Len(results.test_cases)
    /\ results.summary.passed + results.summary.failed
          + results.summary.errors =
             results.summary.total
                 + (IF outcome.navigate = "raises" THEN 1 ELSE 0)
    /\ results.summary.passed = StatusCount(results.test_cases, "passed")
    /\ results.summary.failed = StatusCount(results.test_cases, "failed")

C36_RobustSuiteWithErrorCase ==
    /\ runner = "robust"
    /\ results.ended
    /\ Len(results.test_cases) = 2
    /\ results.summary =
          [total |-> 2, passed |-> 1, failed |-> 0, errors |-> 1]

\* C37: in every case result of every runner the recorded step results
\* are those of a prefix of the steps of the case, in order (the entry at
\* position i has index i, counted from 0); every recorded step but
\* possibly the last has status passed; and the status of a case result
\* that is complete is passed exactly when all steps of the case are
\* recorded and all have status passed, so a case without steps is passed.
C37_CaseResultShape ==
    LET steps == case_result.steps
    IN  /\ Len(steps) <= test_case.nsteps
        /\ \A i \in DOMAIN steps : steps[i].index = i - 1
        /\ \A i \in DOMAIN steps :
              i < Len(steps) => steps[i].status = "passed"
        /\ case_result.ended =>
              (case_result.status = "passed" <=>
                  /\ Len(steps) = test_case.nsteps
                  /\ \A i \in DOMAIN steps : steps[i].status = "passed")

C37_CaseStoppedAtFirstStep ==
    /\ runner = "standard"
    /\ case_result.ended
    /\ test_case.nsteps = 2
    /\ Len(case_result.steps) = 1
    /\ case_result.steps[1].status = "failed"
    /\ case_result.status = "failed"

\* C38: whenever an assertion is evaluated, the page the assertion
\* executor queries is the active page of the session manager, also in the
\* Optimized Runner after it has replaced a missing or closed page by a
\* fresh one for a later file.
C38_ExecutorQueriesActivePage ==
    (/\ step_result.ended
     /\ \E k \in DOMAIN calls : calls[k].kind = "assertion") =>
        bm.executor = bm.page

\* C39: when a run over at least one selected file ends normally with
\* exit code 0, main was handed one result per selected file and every one
\* of them is a suite result whose summary has failed = 0 and errors = 0;
\* a file the batch recorded as an error result (it could not be loaded
\* or its execution raised) therefore never ends with exit code 0.
C39_ExitZeroMeansAllSuitesClean ==
    (/\ pc = "exited"
     /\ top_exc = None
     /\ nFiles > 0
     /\ exit_code = 0) =>
        /\ Len(returned) = nFiles
        /\ \A i \in DOMAIN returned :
              /\ returned[i].kind = "suite"
              /\ returned[i].summary.failed = 0
              /\ returned[i].summary.errors = 0

\* ------------------------------------------- a client of BrowserManager
\* The session manager taken by itself: a client calls start(), close()
\* and the five operations in any order.  browser_started is the
\* client's knowledge that a call of start() has returned; pending is the
\* operation called last, exc what it raised and calls the page
\* operations it performed.
MaxStarts == 2
MaxCloses == 2

NotStarted == "Browser not started. Call start() first."

Operations ==
    {"navigate", "execute_action", "execute_assertion", "take_screenshot",
     "get_page_info"}

\* Fault: the operations do not look at the session before they use it.
not_started_unguarded(b, op) == FALSE

\* The first statement of every operation: execute_assertion tests
\* self.assertion_executor, the other four test self.page.
not_started(b, op) ==
    IF op = "execute_assertion" THEN b.executor = 0 ELSE b.page = 0

InitBM ==
    /\ nFiles = 0
    /\ screenshot_on_failure = TRUE
    /\ flags = NoFlags
    /\ pc = "client"
    /\ runner = None
    /\ returned = <<>>
    /\ all_tests_passed = TRUE
    /\ exit_code = -1
    /\ top_exc = None
    /\ exc = None
    /\ fileIdx = 0
    /\ batch_results = <<>>
    /\ browser_started = FALSE
    /\ test_data = NoTestData
    /\ results = results_init
    /\ test_case = NoTestCase
    /\ case_result = NoCaseResult
    /\ step_result = NoStepResult
    /\ calls = <<>>
    /\ outcome = NoOutcome
    /\ bm = BrowserManager_init
    /\ starts = 0
    /\ closes = 0
    /\ page = 0
    /\ original_page = 0
    /\ pending = None
    /\ assertion_pattern_matcher = AssertionPatternMatcher
    /\ interactive = NoInteraction
    /\ arg = None
    /\ ret = None
    /\ file = None

BM_unchanged ==
    UNCHANGED <<inputs, libv, pc, runner, returned, all_tests_passed, exit_code,
                top_exc, fileIdx, batch_results, suitev, test_case,
                case_result, step_result, outcome, page, original_page>>

\* start()
BM_start ==
    /\ starts < MaxStarts
    /\ \E sf \in StartStages :
          /\ bm' = BrowserManager_start(bm, sf)
          /\ browser_started' = (browser_started \/ sf = 0)
          /\ exc' = IF sf = 0 THEN None ELSE "start"
    /\ starts' = starts + 1
    /\ pending' = None
    /\ calls' = <<>>
    /\ closes' = closes
    /\ BM_unchanged

\* close()
BM_close ==
    /\ closes < MaxCloses
    /\ \E cf \in CloseStages :
          /\ bm' = BrowserManager_close(bm, cf)
          /\ exc' = IF cf = 0 THEN None ELSE "close"
    /\ closes' = closes + 1
    /\ pending' = None
    /\ calls' = <<>>
    /\ UNCHANGED <<starts, browser_started>>
    /\ BM_unchanged

\* One of the five operations: the guard, then the page operation, which
\* returns or raises.
BM_operation(op) ==
    /\ pending' = op
    /\ IF not_started(bm, op)
       THEN /\ exc' = NotStarted
            /\ calls' = <<>>
       ELSE /\ calls' = <<[step |-> 0, kind |-> "page", instruction |-> <<>>,
                           arg |-> op]>>
            /\ \E ok \in BOOLEAN :
                  exc' = IF ok THEN None ELSE EngineError
    /\ UNCHANGED <<browserv, browser_started>>
    /\ BM_unchanged

BM_navigate ==
    /\ pc = "client"
    /\ BM_operation("navigate")

BM_execute_action ==
    /\ pc = "client"
    /\ BM_operation("execute_action")

BM_execute_assertion ==
    /\ pc = "client"
    /\ BM_operation("execute_assertion")

BM_take_screenshot ==
    /\ pc = "client"
    /\ BM_operation("take_screenshot")

BM_get_page_info ==
    /\ pc = "client"
    /\ BM_operation("get_page_info")

NextBM ==
    \/ BM_start
    \/ BM_close
    \/ BM_navigate
    \/ BM_execute_action
    \/ BM_execute_assertion
    \/ BM_take_screenshot
    \/ BM_get_page_info

SpecBM == InitBM /\ [][NextBM]_vars

\* C14: an operation of the session manager (navigate, execute_action,
\* execute_assertion, take_screenshot, get_page_info) that is called
\* while no call of start() has returned raises the "not started" error
\* and performs no page operation.
C14_NotStartedBeforeStart ==
    (pending \in Operations /\ ~browser_started) =>
        /\ exc = NotStarted
        /\ calls = <<>>

\* execute_assertion was called after a start() that acquired the
\* engine, the browser and the context and then failed to make the page.
C14_AssertionAfterFailedStart ==
    /\ pending = "execute_assertion"
    /\ ~browser_started
    /\ starts = 1
    /\ bm.live = {"playwright", "browser", "context"}
    /\ exc = NotStarted
    /\ calls = <<>>

\* C15: the runner main selects from the number of files and the flags:
\* with files (more than one, or exactly one), the robust flag gives the
\* Robust Runner whatever the optimized flag is, otherwise the optimized
\* flag gives the Optimized Runner, otherwise the Standard Runner runs
\* the files one by one; without files the Standard Runner's interactive
\* session is started, and no test file is run in that mode.
C15_RunnerSelection ==
    /\ flags.read =>
          /\ nFiles = 0 =>
                runner = "standard" /\ pc = "interactive"
          /\ (nFiles > 0 /\ flags.robust) =>
                runner = "robust" /\ pc = "rob_batch"
          /\ (nFiles > 0 /\ ~flags.robust /\ flags.optimized) =>
                runner = "optimized" /\ pc = "opt_batch"
          /\ (nFiles > 0 /\ ~flags.robust /\ ~flags.optimized) =>
                runner = "standard" /\ pc = "std_file"
    /\ (runner # None /\ nFiles = 0) =>
          /\ pc \in {"interactive", "interactive_loop", "interrupted",
                     "main_exit", "exited"}
          /\ fileIdx = 0
          /\ returned = <<>>

\* Two files with both flags set: the Robust Runner's batch is entered.
C15_RobustOverOptimized ==
    /\ flags.read
    /\ flags.robust
    /\ flags.optimized
    /\ nFiles = 2
    /\ runner = "robust"
    /\ pc = "rob_batch"

\* C16: in every runner a case result that is returned with a failed
\* step has, when screenshot_on_failure is enabled, the path of a failure
\* screenshot that was requested for the case; when screenshot_on_failure
\* is disabled no case result has a screenshot.
C16_FailureScreenshot ==
    /\ (screenshot_on_failure /\ case_result.ended
            /\ FailedSteps(case_result) # {}) =>
          case_result.screenshot.kind # None
    /\ ~screenshot_on_failure =>
          case_result.screenshot.kind = None

\* C17: the capture of a failure screenshot in the Standard and the
\* Optimized Runner never lets an exception of the capture through: when
\* the capture returns, the case result has the path made of the case's
\* name and the step index (-1 when requested by the except clause of
\* the case), and when the capture raises it has exactly the path
\* screenshot_failed.png; in both cases the case goes on to return its
\* result.
C17_CaptureNeverPropagates ==
    (runner \in {"standard", "optimized"} /\ outcome.capture # None) =>
        /\ outcome.capture = "returns" =>
              case_result.screenshot =
                  [kind |-> "failure", case |-> case_result.name,
                   idx |-> IF FailedSteps(case_result) # {}
                           THEN step_result.index ELSE -1]
        /\ outcome.capture = "raises" =>
              case_result.screenshot =
                  [kind |-> "screenshot_failed.png", case |-> "", idx |-> 0]
        /\ exc = None
        /\ pc \in {"std_steps", "std_case_returned",
                   "opt_steps", "opt_case_returned"}

\* The capture raised for the second step of a case of the Standard
\* Runner and the case returned with the fallback path.
C17_CaptureRaised ==
    /\ runner = "standard"
    /\ outcome.capture = "raises"
    /\ step_result.index = 1
    /\ step_result.status = "failed"
    /\ case_result.ended
    /\ case_result.screenshot.kind = "screenshot_failed.png"

\* C18 as stated: in every runner a step that is a mapping with an empty
\* or missing instruction ends as a failed step with the message that no
\* instruction was provided, without a call of the pattern matcher, the
\* translator or the executors; it is recorded once in its case, which
\* stops there, and the exception does not leave the step.
C18_EmptyInstructionAsStated ==
    (runner # None /\ step_result.ended
        /\ step_result.natural_language = <<>>) =>
        /\ step_result.status = "failed"
        /\ step_result.error = NoInstruction
        /\ calls = <<>>
        /\ Len(case_result.steps) = step_result.index + 1
        /\ case_result.steps[Len(case_result.steps)].status = "failed"
        /\ exc # NoInstruction

\* C18: the same for the Standard and the Optimized Runner, and for the
\* Robust Runner while the page of the session is open; a step of the
\* Robust Runner that finds the page closed or missing is failed with
\* the message of the page check, whatever its instruction is, and also
\* without any call of the translator or the action executor.
C18_EmptyInstructionRejected ==
    (runner # None /\ step_result.ended
        /\ step_result.natural_language = <<>>) =>
        /\ step_result.status = "failed"
        /\ step_result.error \in {NoInstruction, PageClosed}
        /\ step_result.error = PageClosed =>
              /\ runner = "robust"
              /\ bm.page = 0 \/ is_closed(bm, bm.page)
        /\ (runner = "robust" /\ pc = "rob_steps"
                /\ ~(bm.page = 0 \/ is_closed(bm, bm.page))) =>
              step_result.error = NoInstruction
        /\ calls = <<>>
        /\ Len(case_result.steps) = step_result.index + 1
        /\ case_result.steps[Len(case_result.steps)].status = "failed"
        /\ exc # NoInstruction

\* The second step of a case of the Optimized Runner had no instruction
\* and was recorded as failed.
C18_SecondStepEmpty ==
    /\ runner = "optimized"
    /\ step_result.ended
    /\ step_result.natural_language = <<>>
    /\ step_result.index = 1
    /\ step_result.error = NoInstruction
    /\ calls = <<>>
    /\ case_result.status = "failed"

TerminalStatuses == {"passed", "failed", "error"}

\* C19: a step result and a case result start as running and are
\* terminal (passed, failed or error) when they are returned; no step
\* entry of a case and no case entry of a suite is running; and a
\* terminal status is not changed again: a step that failed made its
\* case failed, so a case with a failed step is never anything but
\* failed.
C19_StatusLifecycle ==
    /\ step_result.status \in {"running"} \cup TerminalStatuses
    /\ case_result.status \in {"running"} \cup TerminalStatuses
    /\ step_result.ended <=> step_result.status \in TerminalStatuses
    /\ case_result.ended => case_result.status \in TerminalStatuses
    /\ \A i \in DOMAIN case_result.steps :
          case_result.steps[i].status \in TerminalStatuses
    /\ \A i \in DOMAIN results.test_cases :
          results.test_cases[i].status \in TerminalStatuses
    /\ FailedSteps(case_result) # {} => case_result.status = "failed"

\* The calls of the action executor and the assertion executor among the
\* calls of the step executed last.
Executions ==
    {k \in DOMAIN calls : calls[k].kind \in {"action", "assertion"}}

\* C20: in every runner a step causes at most one execution of an action
\* or one evaluation of an assertion, whether it passes, fails or times
\* out: the calls of a step hold at most one call of the executors, all
\* of them belong to the step being executed, and no step is recorded
\* twice in its case.
C20_NoRetry ==
    /\ Cardinality(Executions) <= 1
    /\ \A k \in DOMAIN calls : calls[k].step = step_result.index
    /\ \A i \in DOMAIN case_result.steps :
          case_result.steps[i].index = i - 1

\* A click of the Robust Runner raised: it was executed once and the
\* step is failed.
C20_RaisedOnce ==
    /\ runner = "robust"
    /\ step_result.ended
    /\ outcome.executor = "raises"
    /\ step_result.status = "failed"
    /\ Cardinality(Executions) = 1
    /\ \E k \in Executions : calls[k].kind = "action"

\* C28: execute_action with an action_type outside the recognized ones
\* (the fallback's unknown, or none at all) performs no page operation and
\* does not raise; a step for which it returned is recorded as passed.
C28_UnknownActionPasses ==
    (/\ step_result.ended
     /\ step_result.action # None
     /\ step_result.action \notin RecognizedActionTypes
     /\ \E k \in DOMAIN calls :
           calls[k].kind = "action" /\ calls[k].arg = step_result.action) =>
        /\ outcome.executor # "raises"
        /\ outcome.executor = "returns" =>
              /\ step_result.status = "passed"
              /\ step_result.error = None
              /\ case_result.steps[Len(case_result.steps)].status = "passed"
              /\ bm.page \in bm.open

\* A step of the Robust Runner whose action has the type unknown: the
\* executor returned and the step is passed.
C28_UnknownPassed ==
    /\ runner = "robust"
    /\ step_result.ended
    /\ step_result.action = "unknown"
    /\ \E k \in DOMAIN calls : calls[k].kind = "action"
    /\ outcome.executor = "returns"
    /\ step_result.status = "passed"

\* ------------------------------------------------- clients of the library
\* A client that uses one class of the package outside a run: the state
\* of the run keeps its initial value, arg holds the arguments of the
\* call and ret what the call returned or raised.
NoRun ==
    /\ assertion_pattern_matcher = AssertionPatternMatcher
    /\ interactive = NoInteraction
    /\ nFiles = 0
    /\ screenshot_on_failure = TRUE
    /\ flags = NoFlags
    /\ runner = None
    /\ returned = <<>>
    /\ all_tests_passed = TRUE
    /\ exit_code = -1
    /\ top_exc = None
    /\ exc = None
    /\ fileIdx = 0
    /\ batch_results = <<>>
    /\ browser_started = FALSE
    /\ test_data = NoTestData
    /\ results = results_init
    /\ test_case = NoTestCase
    /\ case_result = NoCaseResult
    /\ step_result = NoStepResult
    /\ calls = <<>>
    /\ outcome = NoOutcome
    /\ bm = BrowserManager_init
    /\ starts = 0
    /\ closes = 0
    /\ page = 0
    /\ original_page = 0
    /\ pending = None

NoRun_unchanged ==
    UNCHANGED <<inputs, runner, mainv, batchv, suitev, casev, browserv,
                robustv, assertion_pattern_matcher, interactive>>

\* ------------------------------------------------ AssertionPatternMatcher
\* The instructions the client parses: [URLが|URLに] [quote] words [quote]
\* predicate [ending], the empty instruction and a greeting.
MaxWords == 1

Words == {"success"}

WordSeqs == UNION {[1..n -> Words] : n \in 1..MaxWords}

Sentences ==
    LET Subjects == {<<>>, <<"URL", "ga">>, <<"URL", "ni">>}
        Quotes == {<<<<>>, <<>>>>, <<<<"lb">>, <<"rb">>>>,
                   <<<<"dq">>, <<"dq">>>>}
        Predicates ==
            {<<"de_owaru">>, <<"de_hajimaru">>, <<"ga", "fukumareru">>,
             <<"ga", "hyoji_sarete", "iru">>,
             <<"ga", "hyoji_sarete", "inai">>,
             <<"botan", "wo", "kurikku">>,
             <<"botan", "ga", "yuko", "de", "iru">>}
        Endings ==
            {<<>>, <<"koto", "wo", "kakunin">>,
             <<"koto", "wo", "kakunin", "suru">>, <<"suru">>}
    IN  {<<>>, <<"konnichiwa">>} \cup
        {s \o q[1] \o w \o q[2] \o p \o e :
            s \in Subjects, q \in Quotes, w \in WordSeqs, p \in Predicates,
            e \in Endings}

\* parse(instruction)
PM_parse ==
    /\ pc = "client"
    /\ arg.op = "parse"
    /\ ret' = parse(arg.instruction)
    /\ pc' = "returned"
    /\ UNCHANGED <<arg, file>>
    /\ NoRun_unchanged

\* The entries of the table whose expression matches the instruction; an
\* expression that does not compile matches nothing.
matching(table, instruction) ==
    {i \in 1..Len(table) : search(table[i].re, instruction).matched}

\* C21: parse() returns the assertion built from the lowest entry of the
\* table whose expression matches the instruction, whatever the entry's
\* parameter kind, and returns no result exactly when no entry matches.
C21_FirstMatchWins ==
    (pc = "returned" /\ arg.op = "parse") =>
        LET hits == matching(PATTERNS, arg.instruction)
        IN  /\ ret.error = None
            /\ hits = {} <=> ret = NoAssertion
            /\ hits # {} => \A i \in hits : ret.entry <= i

\* URLが"X"で終わることを確認する, for the words X.
UrlEndsWith(x) ==
    <<"URL", "ga", "dq">> \o x
        \o <<"dq", "de_owaru", "koto", "wo", "kakunin", "suru">>

\* C22: URLが"X"で終わることを確認する is parsed to an assertion of type
\* url_ends_with whose expected value is X without the quotes.
C22_UrlEndsWithParsed ==
    \A x \in WordSeqs :
        (pc = "returned" /\ arg.op = "parse"
            /\ arg.instruction = UrlEndsWith(x)) =>
            /\ ret.error = None
            /\ ret.type = "url_ends_with"
            /\ ret.expected = x

\* The types _execute_assertion has an evaluator for.
ImplementedTypes ==
    {"text_exists", "text_not_exists", "element_exists",
     "element_not_exists", "element_visible", "element_hidden",
     "url_contains", "url_equals", "url_starts_with", "url_ends_with",
     "title_contains", "title_equals", "element_count",
     "input_value_equals", "checkbox_checked", "checkbox_unchecked"}

\* C23: every assertion type that appears in the pattern table, and so
\* every type parse() returns, is one of the 16 implemented types.
C23_TableEmitsImplementedTypes ==
    /\ \A i \in 1..Len(PATTERNS) : PATTERNS[i].type \in ImplementedTypes
    /\ (pc = "returned" /\ arg.op = "parse" /\ ret.type # None) =>
          ret.type \in ImplementedTypes

\* ---------------------------------------------------- AssertionExecutor
\* The values of AssertionType.
AssertionTypes ==
    {"text_exists", "text_not_exists", "text_equals", "text_contains",
     "text_matches", "element_exists", "element_not_exists",
     "element_visible", "element_hidden", "element_count",
     "attribute_equals", "attribute_contains", "attribute_exists",
     "url_equals", "url_contains", "url_matches", "url_starts_with",
     "url_ends_with", "title_equals", "title_contains", "title_matches",
     "input_value_equals", "input_value_contains", "checkbox_checked",
     "checkbox_unchecked", "element_enabled", "element_disabled"}

\* What the page answers to the operations of an evaluator: the asserted
\* condition holds, it does not hold, or the operation raises (an
\* Exception of the engine: Error, TimeoutError, TypeError).
EngineAnswers == {"holds", "fails", "raises"}

\* error_message values of an AssertionResult.
Mismatch == "mismatch"
EvaluatorError == "evaluator error"
Unimplemented == "Unimplemented assertion type"
ExecutionError == "assertion execution error"

\* AssertionResult(passed=..., error_message=...): execution_time_ms has
\* its default until execute() sets it; raised is the exception that left
\* the call instead of a result.
Elapsed == "elapsed"

AssertionResult(passed, error_message) ==
    [raised |-> None, passed |-> passed, error_message |-> error_message,
     execution_time_ms |-> None]

\* The evaluators _assert_*: each is one try block whose except clause
\* returns a failed result.  The two text evaluators swallow the
\* exception of every page operation themselves and go on: with nothing
\* found text_exists fails and text_not_exists passes.
evaluate(type, engine) ==
    IF type = "text_exists"
    THEN IF engine = "holds" THEN AssertionResult(TRUE, None)
         ELSE AssertionResult(FALSE, Mismatch)
    ELSE IF type = "text_not_exists"
    THEN IF engine = "fails" THEN AssertionResult(FALSE, Mismatch)
         ELSE AssertionResult(TRUE, None)
    ELSE IF engine = "raises" THEN AssertionResult(FALSE, EvaluatorError)
    ELSE IF engine = "holds" THEN AssertionResult(TRUE, None)
    ELSE AssertionResult(FALSE, Mismatch)

\* _execute_assertion(assertion)
execute_assertion(type, engine) ==
    IF type \in ImplementedTypes THEN evaluate(type, engine)
    ELSE AssertionResult(FALSE, Unimplemented)

\* Fault: execute() records the time only in its except clause.
execute_untimed(type, engine) ==
    LET result == execute_assertion(type, engine)
    IN  IF result.raised # None
        THEN [AssertionResult(FALSE, ExecutionError)
                 EXCEPT !.execution_time_ms = Elapsed]
        ELSE result

\* AssertionExecutor.execute(assertion)
execute(type, engine) ==
    LET result == execute_assertion(type, engine)
    IN  IF result.raised # None
        THEN [AssertionResult(FALSE, ExecutionError)
                 EXCEPT !.execution_time_ms = Elapsed]
        ELSE [result EXCEPT !.execution_time_ms = Elapsed]

AE_execute ==
    /\ pc = "client"
    /\ arg.op = "execute"
    /\ ret' = execute(arg.type, arg.engine)
    /\ pc' = "returned"
    /\ UNCHANGED <<arg, file>>
    /\ NoRun_unchanged

\* C24: execute() never raises: for each of the 27 types and whatever
\* the engine does it returns a result with execution_time_ms set; an
\* exception that left the dispatcher became a failed result with the
\* execution-error message, and a type without evaluator gives a failed
\* result with the unimplemented message.
C24_ExecuteNeverRaises ==
    (pc = "returned" /\ arg.op = "execute") =>
        /\ ret.raised = None
        /\ ret.passed \in BOOLEAN
        /\ ret.execution_time_ms = Elapsed
        /\ execute_assertion(arg.type, arg.engine).raised # None =>
              ~ret.passed /\ ret.error_message = ExecutionError
        /\ arg.type \notin ImplementedTypes =>
              ~ret.passed /\ ret.error_message = Unimplemented

\* The engine raised during the evaluation of an implemented type and
\* execute() returned a failed result.
C24_EngineRaised ==
    /\ pc = "returned"
    /\ arg.op = "execute"
    /\ arg.type = "element_visible"
    /\ arg.engine = "raises"
    /\ ret.raised = None
    /\ ~ret.passed
    /\ ret.execution_time_ms = Elapsed

\* ------------------------------------------------------------ LLMManager
\* Instructions for the translators are sequences of words; a keyword
\* occurs in an instruction when one of its words, in lower case, holds
\* it.  Click, Select and Back are written with a capital; hello holds
\* no keyword.
MaxKeywords == 2

\* keyword in text.lower(), for one of the keywords.
occurs(keywords, text) ==
    \E i \in 1..Len(text) : lower(text[i]) \in keywords

FallbackInstructions ==
    LET FallbackWords ==
            {"Click", "press", "tap", "type", "input", "enter", "wait",
             "pause", "navigate", "go to", "open", "hello"}
    IN  UNION {[1..n -> FallbackWords] : n \in 0..MaxKeywords}

\* What the pipeline does with the prompt: there is no pipeline (the
\* model is not loaded), the generation raises, or it answers a text,
\* here a sequence of braces and of members of a JSON object.
MaxResponse == 3

ModelAnswers ==
    LET Responses ==
            UNION {[1..n -> {"{", "}", "member"}] : n \in 0..MaxResponse}
    IN  {[raises |-> e, response |-> <<>>] :
            e \in {"Model not loaded", "generation failed"}}
            \cup {[raises |-> None, response |-> r] : r \in Responses}

Returned(value) == [raised |-> None, value |-> value]

\* _fallback_action_parsing(text)
fallback_action_parsing(text) ==
    IF occurs({"click", "press", "tap"}, text)
    THEN [action_type |-> "click", selector |-> "button"]
    ELSE IF occurs({"type", "input", "enter"}, text)
    THEN [action_type |-> "type", selector |-> "input", text |-> <<>>]
    ELSE IF occurs({"wait", "pause"}, text)
    THEN [action_type |-> "wait", timeout |-> 3000]
    ELSE IF occurs({"navigate", "go to", "open"}, text)
    THEN [action_type |-> "navigate", url |-> <<>>]
    ELSE [action_type |-> "unknown", original_text |-> text]

\* re.search(r'\{.*\}', response, re.DOTALL): the text from the first
\* opening brace to the last closing brace after it, or <<>> for no match.
json_match(response) ==
    LET open == {i \in 1..Len(response) : response[i] = "{"}
        first == CHOOSE i \in open : \A j \in open : i <= j
        close == {i \in 1..Len(response) : response[i] = "}" /\ i > first}
        last == CHOOSE i \in close : \A j \in close : i >= j
    IN  IF open = {} THEN <<>>
        ELSE IF close = {} THEN <<>>
        ELSE SubSeq(response, first, last)

\* json.loads(text) for a matched text: an object without or with a
\* member is parsed, anything else raises JSONDecodeError.
json_loads(text) ==
    IF text = <<"{", "}">> THEN Returned(<<>>)
    ELSE IF text = <<"{", "member", "}">> THEN Returned(<<"member">>)
    ELSE [raised |-> "JSONDecodeError", value |-> <<>>]

\* Fault: the exception of json.loads leaves translate_to_actions.
translate_to_actions_unguarded(natural_language, model) ==
    IF model.raises # None
    THEN Returned(fallback_action_parsing(natural_language))
    ELSE IF json_match(model.response) = <<>>
    THEN Returned(fallback_action_parsing(natural_language))
    ELSE json_loads(json_match(model.response))

\* LLMManager.translate_to_actions(natural_language)
translate_to_actions(natural_language, model) ==
    IF model.raises # None
    THEN Returned(fallback_action_parsing(natural_language))
    ELSE IF json_match(model.response) = <<>>
    THEN Returned(fallback_action_parsing(natural_language))
    ELSE IF json_loads(json_match(model.response)).raised # None
    THEN Returned(fallback_action_parsing(natural_language))
    ELSE json_loads(json_match(model.response))

LLM_translate_to_actions ==
    /\ pc = "client"
    /\ arg.op = "translate_to_actions"
    /\ ret' = translate_to_actions(arg.natural_language, arg.model)
    /\ pc' = "returned"
    /\ UNCHANGED <<arg, file>>
    /\ NoRun_unchanged

\* The call gets no parsed object from the model.
NoObject(model) ==
    \/ model.raises # None
    \/ \A i, j \in 1..Len(model.response) :
          ~(i < j /\ model.response[i] = "{" /\ model.response[j] = "}")
    \/ \E i, j \in 1..Len(model.response) :
          /\ i < j /\ model.response[i] = "{" /\ model.response[j] = "}"
          /\ \A k \in 1..(i - 1) : model.response[k] # "{"
          /\ \A k \in (j + 1)..Len(model.response) : model.response[k] # "}"
          /\ \E k \in (i + 1)..(j - 1) :
                k > i + 1 \/ model.response[k] # "member"

\* C25: translate_to_actions never raises; when the model is not loaded,
\* the generation fails, the response holds no object in braces or the
\* object is no JSON, it returns the fallback action: click for click /
\* press / tap, else type for type / input / enter, else wait with 3000
\* ms for wait / pause, else navigate for navigate / go to / open, else
\* unknown with the original text.
C25_TranslateFallsBack ==
    (pc = "returned" /\ arg.op = "translate_to_actions") =>
        LET has(words) ==
                \E i \in 1..Len(arg.natural_language) :
                    lower(arg.natural_language[i]) \in words
        IN  /\ ret.raised = None
            /\ NoObject(arg.model) =>
                  /\ has({"click", "press", "tap"}) =>
                        ret.value.action_type = "click"
                  /\ (~has({"click", "press", "tap"})
                        /\ has({"type", "input", "enter"})) =>
                        ret.value.action_type = "type"
                  /\ (~has({"click", "press", "tap", "type", "input",
                            "enter"})
                        /\ has({"wait", "pause"})) =>
                        ret.value.action_type = "wait"
                            /\ ret.value.timeout = 3000
                  /\ (~has({"click", "press", "tap", "type", "input",
                            "enter", "wait", "pause"})
                        /\ has({"navigate", "go to", "open"})) =>
                        ret.value.action_type = "navigate"
                  /\ ~has({"click", "press", "tap", "type", "input",
                           "enter", "wait", "pause", "navigate", "go to",
                           "open"}) =>
                        /\ ret.value.action_type = "unknown"
                        /\ ret.value.original_text = arg.natural_language

\* The model answered an object in braces that is no JSON for an
\* instruction with a word of the second and one of the first group: the
\* fallback answered click.
C25_NotJsonFallback ==
    /\ pc = "returned"
    /\ arg.op = "translate_to_actions"
    /\ arg.natural_language = <<"type", "Click">>
    /\ arg.model.raises = None
    /\ arg.model.response = <<"{", "{", "}">>
    /\ ret.raised = None
    /\ ret.value.action_type = "click"

\* -------------------------------------------------------- MockLLMManager
\* The words of the instructions for the mock translator: the keywords
\* of its groups (移動, クリック, 押す, 入力, 待つ, スクリーンショット, 確認, 戻る, 選択
\* and the English ones) and a word of no group.  The instructions hold
\* no URL, no digits, no quotes and none of the words the click and the
\* typing branch choose their selector by.
AsciiWords ==
    {"navigate", "click", "type", "wait", "screenshot", "check", "verify",
     "back", "Back", "select", "Select", "hello"}

MockInstructions ==
    LET MockWords ==
            AsciiWords \cup {"ido", "kurikku", "osu", "nyuryoku", "matsu",
                             "sukurinshotto", "kakunin", "modoru",
                             "sentaku"}
    IN  UNION {[1..n -> MockWords] : n \in 0..MaxKeywords}

\* re.search(r'...|([A-Za-z][A-Za-z\s]+)', natural_language) of the click
\* branch: the first run of words in Latin letters, <<>> for no match.
latin_run(text) ==
    LET at == {i \in 1..Len(text) : text[i] \in AsciiWords}
        first == CHOOSE i \in at : \A j \in at : i <= j
        ends == {j \in first..Len(text) :
                    \A k \in first..j : text[k] \in AsciiWords}
        last == CHOOSE j \in ends : \A k \in ends : j >= k
    IN  IF at = {} THEN <<>> ELSE SubSeq(text, first, last)

\* MockLLMManager.translate_to_actions(natural_language).  The function
\* imports re inside its navigation, click, typing and wait branches,
\* which makes re a local name of the whole function: the selection
\* branch uses it without importing it and raises UnboundLocalError.
mock_translate_to_actions(natural_language) ==
    LET in(keywords) ==
            \E i \in 1..Len(natural_language) :
                natural_language[i] \in keywords
    IN  IF in({"ido"}) \/ occurs({"navigate"}, natural_language)
        THEN Returned([action_type |-> "navigate",
                       url |-> "https://example.com"])
        ELSE IF in({"kurikku", "osu"}) \/ occurs({"click"}, natural_language)
        THEN Returned([action_type |-> "click",
                       selector |->
                           IF latin_run(natural_language) = <<>>
                           THEN <<"button, a, input[type='submit']">>
                           ELSE <<"*:has-text">>
                                    \o latin_run(natural_language)])
        ELSE IF in({"nyuryoku"}) \/ occurs({"type"}, natural_language)
        THEN Returned([action_type |-> "type",
                       selector |->
                           "input[type='text'], input:not([type]), textarea",
                       text |-> "test input"])
        ELSE IF in({"matsu"}) \/ occurs({"wait"}, natural_language)
        THEN Returned([action_type |-> "wait", timeout |-> 3000])
        ELSE IF in({"sukurinshotto"})
                  \/ occurs({"screenshot"}, natural_language)
        THEN Returned([action_type |-> "screenshot",
                       path |-> "test_screenshot.png"])
        ELSE IF in({"kakunin"})
                  \/ occurs({"check", "verify"}, natural_language)
        THEN Returned([action_type |-> "wait", timeout |-> 1000])
        ELSE IF in({"modoru"}) \/ occurs({"back"}, natural_language)
        THEN Returned([action_type |-> "navigate", url |-> "back"])
        ELSE IF in({"sentaku"}) \/ occurs({"select"}, natural_language)
        THEN [raised |-> "UnboundLocalError", value |-> <<>>]
        ELSE Returned([action_type |-> "click", selector |-> <<"*">>])

Mock_translate_to_actions ==
    /\ pc = "client"
    /\ arg.op = "mock_translate_to_actions"
    /\ ret' = mock_translate_to_actions(arg.natural_language)
    /\ pc' = "returned"
    /\ UNCHANGED <<arg, file>>
    /\ NoRun_unchanged

\* The keyword groups of the cascade in their order, each with the
\* action_type of its category.
KeywordGroups ==
    <<[words |-> {"ido", "navigate"}, action_type |-> "navigate"],
      [words |-> {"kurikku", "osu", "click"}, action_type |-> "click"],
      [words |-> {"nyuryoku", "type"}, action_type |-> "type"],
      [words |-> {"matsu", "wait"}, action_type |-> "wait"],
      [words |-> {"sukurinshotto", "screenshot"},
       action_type |-> "screenshot"],
      [words |-> {"kakunin", "check", "verify"}, action_type |-> "wait"],
      [words |-> {"modoru", "back"}, action_type |-> "navigate"],
      [words |-> {"sentaku", "select"}, action_type |-> "select"]>>

\* The groups that occur in the instruction.
groups_in(text) ==
    {g \in 1..Len(KeywordGroups) :
        \E i \in 1..Len(text) : lower(text[i]) \in KeywordGroups[g].words}

\* C26: for every instruction the mock translator returns an action and
\* never raises; the action has the category of the first keyword group
\* (navigation, click, typing, wait, screenshot, verification, back,
\* selection) that occurs in the instruction, and is a click on '*' when
\* no group occurs.
C26_MockCascadeTotal ==
    (pc = "returned" /\ arg.op = "mock_translate_to_actions") =>
        LET here == groups_in(arg.natural_language)
        IN  /\ ret.raised = None
            /\ here = {} =>
                  /\ ret.value.action_type = "click"
                  /\ ret.value.selector = <<"*">>
            /\ \A g \in here :
                  (\A h \in here : g <= h) =>
                      ret.value.action_type = KeywordGroups[g].action_type

\* C27: for an instruction with a selection keyword and no keyword of an
\* earlier group the mock translator returns a select action with the
\* selector 'select' and as value the first quoted or alphanumeric token
\* of the instruction, 'Option 1' when there is none.
C27_MockSelect ==
    (pc = "returned" /\ arg.op = "mock_translate_to_actions"
        /\ groups_in(arg.natural_language) = {Len(KeywordGroups)}) =>
        LET text == arg.natural_language
            tokens == {i \in 1..Len(text) : text[i] \in AsciiWords}
        IN  /\ ret.raised = None
            /\ ret.value.action_type = "select"
            /\ ret.value.selector = "select"
            /\ ret.value.value =
                  IF tokens = {} THEN "Option 1"
                  ELSE text[CHOOSE i \in tokens : \A j \in tokens : i <= j]

\* ---------------------------------------------------------------- config
\* A configuration, with one field of each section: a str, a bool and a
\* Path, and the top-level str.  The fields left out are plain scalars
\* like model_name.
KotobaConfig_default ==
    [llm |-> [model_name |-> "rinna/japanese-gpt-neox-3.6b"],
     playwright |-> [headless |-> TRUE],
     test |-> [output_dir |-> [Path |-> "outputs"]],
     log_level |-> "INFO"]

Configs ==
    [llm : [model_name : {"rinna/japanese-gpt-neox-3.6b", "custom-model"}],
     playwright : [headless : BOOLEAN],
     test : [output_dir : [Path : {"outputs", "results"}]],
     log_level : {"INFO", "WARNING"}]

\* A YAML document of the configuration file: every key holds a node,
\* the text of a scalar with the tag YAML resolves for it, Absent for a
\* key the file does not have; extra is a key the configuration model does
\* not declare.
node(tag, text) == [tag |-> tag, text |-> text]

Absent == node("absent", "")

PathTag == "python/object/apply:pathlib.PosixPath"

Documents ==
    LET Extra == {Absent, node("str", "x")}
    IN  [llm : [model_name : {Absent, node("str", "custom-model"),
                              node("str", "other-model")},
                extra : Extra],
         playwright : [headless : {Absent, node("bool", "true"),
                                   node("bool", "false")}],
         test : [output_dir : {Absent, node("str", "outputs"),
                               node("str", "results")},
                 extra : Extra],
         log_level : {Absent, node("str", "INFO"), node("str", "WARNING"),
                      node("int", "5")},
         extra : Extra]

NoFile == [exists |-> FALSE, document |-> <<>>]

\* A file that exists and holds no YAML node: no bytes, or comments only.
EmptyFile == [exists |-> TRUE, document |-> <<>>]

\* yaml.dump(config.model_dump(), f, ...): model_dump() turns the models
\* into mappings and leaves output_dir a Path object, which yaml.dump
\* represents with a python/object tag.
yaml_dump(data) ==
    [llm |-> [model_name |-> node("str", data.llm.model_name),
              extra |-> Absent],
     playwright |->
         [headless |-> node("bool", IF data.playwright.headless
                                    THEN "true" ELSE "false")],
     test |-> [output_dir |-> node(PathTag, data.test.output_dir.Path),
               extra |-> Absent],
     log_level |-> node("str", data.log_level),
     extra |-> Absent]

\* yaml.safe_load(f): the safe loader constructs the standard tags only;
\* a stream without a node loads as None, written <<>> here.
safe_load(document) ==
    IF DOMAIN document = {} THEN Returned(<<>>) ELSE
    LET nodes == {document.llm.model_name, document.llm.extra,
                  document.playwright.headless, document.test.output_dir,
                  document.test.extra, document.log_level, document.extra}
    IN  IF \E n \in nodes : n.tag \notin {"absent", "str", "bool", "int"}
        THEN [raised |-> "ConstructorError", value |-> <<>>]
        ELSE Returned(document)

\* KotobaConfig(**config_data): an omitted key takes its default, a str
\* becomes the Path of output_dir, a value of the wrong type is a
\* validation error; the models declare nothing about undeclared keys, so
\* pydantic ignores them.  The call unpacks config_data with **, which
\* Python refuses for None.
KotobaConfig(data) ==
    IF DOMAIN data = {} THEN [raised |-> "TypeError", value |-> <<>>]
    ELSE IF data.log_level.tag \notin {"absent", "str"}
    THEN [raised |-> "ValidationError", value |-> <<>>]
    ELSE Returned(
        [llm |-> [model_name |->
                     IF data.llm.model_name = Absent
                     THEN KotobaConfig_default.llm.model_name
                     ELSE data.llm.model_name.text],
         playwright |-> [headless |->
                     IF data.playwright.headless = Absent
                     THEN KotobaConfig_default.playwright.headless
                     ELSE data.playwright.headless.text = "true"],
         test |-> [output_dir |->
                     IF data.test.output_dir = Absent
                     THEN KotobaConfig_default.test.output_dir
                     ELSE [Path |-> data.test.output_dir.text]],
         log_level |-> IF data.log_level = Absent
                       THEN KotobaConfig_default.log_level
                       ELSE data.log_level.text])

\* load_config(config_path)
load_config(f) ==
    IF ~f.exists THEN Returned(KotobaConfig_default)
    ELSE IF safe_load(f.document).raised # None THEN safe_load(f.document)
    ELSE KotobaConfig(safe_load(f.document).value)

\* save_config(config, config_path)
Cfg_save_config ==
    /\ pc = "client"
    /\ arg.op = "save_config"
    /\ file' = [exists |-> TRUE, document |-> yaml_dump(arg.config)]
    /\ pc' = "saved"
    /\ UNCHANGED <<arg, ret>>
    /\ NoRun_unchanged

\* load_config(config_path), of the file just saved or of the file the
\* client found at the path.
Cfg_load_config ==
    /\ \/ pc = "saved"
       \/ pc = "client" /\ arg.op = "load_config"
    /\ ret' = load_config(file)
    /\ pc' = "returned"
    /\ UNCHANGED <<arg, file>>
    /\ NoRun_unchanged

\* C29: save_config(c, p) followed by load_config(p) succeeds and gives
\* a configuration equal to c in every field, output_dir included.
C29_ConfigRoundTrip ==
    (pc = "returned" /\ arg.op = "save_config") =>
        /\ ret.raised = None
        /\ ret.value = arg.config

\* C30: loading a file with a key the configuration model does not
\* declare, at the top level or inside a section, fails with a
\* validation error.
C30_UnknownKeyRejected ==
    (/\ pc = "returned"
     /\ arg.op = "load_config"
     /\ file.exists
     /\ DOMAIN file.document # {}
     /\ \/ file.document.extra # Absent
        \/ file.document.llm.extra # Absent
        \/ file.document.test.extra # Absent) =>
        ret.raised = "ValidationError"

\* The node a file holds for a key of a section, Absent when the file
\* has no such key.
specified(f, section, key) ==
    IF ~f.exists \/ DOMAIN f.document = {} THEN Absent
    ELSE IF section = "" THEN f.document[key]
    ELSE f.document[section][key]

\* C31: load_config gives every field the file specifies the file's value
\* and every field the file omits, at any nesting level, its declared
\* default; a path that does not exist gives the all-defaults
\* configuration.  Files with a value of the wrong type are left out.
C31_FieldwiseDefaults ==
    (/\ pc = "returned"
     /\ arg.op = "load_config"
     /\ specified(file, "", "log_level").tag # "int") =>
        LET model_name == specified(file, "llm", "model_name")
            headless == specified(file, "playwright", "headless")
            output_dir == specified(file, "test", "output_dir")
            log_level == specified(file, "", "log_level")
        IN  /\ ret.raised = None
            /\ ret.value.llm.model_name =
                  IF model_name = Absent
                  THEN KotobaConfig_default.llm.model_name
                  ELSE model_name.text
            /\ ret.value.playwright.headless =
                  IF headless = Absent
                  THEN KotobaConfig_default.playwright.headless
                  ELSE headless.text = "true"
            /\ ret.value.test.output_dir =
                  IF output_dir = Absent
                  THEN KotobaConfig_default.test.output_dir
                  ELSE [Path |-> output_dir.text]
            /\ ret.value.log_level =
                  IF log_level = Absent
                  THEN KotobaConfig_default.log_level
                  ELSE log_level.text
            /\ ~file.exists => ret.value = KotobaConfig_default

\* ------------------------------------------------------ _load_test_file
\* A path a runner is asked to load: its suffix, whether open() finds a
\* file there, and the file's text: the syntax it is written in and the
\* data it denotes.  Plain text denotes a string.
Suffixes == {".json", ".JSON", ".yaml", ".YAML", ".yml", ".Yml", ".txt", ""}

PlainText == [scalar |-> "invalid content"]

FilePaths ==
    [suffix : Suffixes,
     exists : BOOLEAN,
     content : [syntax : {"json", "yaml"}, data : TestData]
                  \cup {[syntax |-> "text", data |-> PlainText]}]

UnsupportedFormat == "Unsupported file format"

\* json.load(f): the text has to be JSON.
json_load(content) ==
    IF content.syntax = "json" THEN Returned(content.data)
    ELSE [raised |-> "JSONDecodeError", value |-> <<>>]

\* yaml.safe_load(f) of a test file: block YAML, JSON (which is flow YAML)
\* and plain text (a scalar) all load.
yaml_safe_load(content) == Returned(content.data)

\* Fault: the suffix is compared as written.
load_test_file_as_written(file_path) ==
    IF ~file_path.exists
    THEN [raised |-> "FileNotFoundError", value |-> <<>>]
    ELSE IF file_path.suffix = ".json" THEN json_load(file_path.content)
    ELSE IF file_path.suffix \in {".yaml", ".yml"}
         THEN yaml_safe_load(file_path.content)
    ELSE [raised |-> UnsupportedFormat, value |-> <<>>]

\* _load_test_file(file_path), the same in the three runners: open() comes
\* first, the except clause logs and raises again.
load_test_file(file_path) ==
    IF ~file_path.exists
    THEN [raised |-> "FileNotFoundError", value |-> <<>>]
    ELSE IF lower(file_path.suffix) = ".json"
         THEN json_load(file_path.content)
    ELSE IF lower(file_path.suffix) \in {".yaml", ".yml"}
         THEN yaml_safe_load(file_path.content)
    ELSE [raised |-> UnsupportedFormat, value |-> <<>>]

Run_load_test_file ==
    /\ pc = "client"
    /\ arg.op = "load_test_file"
    /\ ret' = load_test_file(arg.file_path)
    /\ pc' = "returned"
    /\ UNCHANGED <<arg, file>>
    /\ NoRun_unchanged

\* C32: a test file that can be opened is loaded by its extension alone,
\* compared without regard to case: .json is parsed as JSON, .yaml and
\* .yml as YAML, a suite written in YAML and the same suite written in
\* JSON load as the same data, and any other extension raises
\* 'Unsupported file format' and returns nothing.
C32_LoadedByExtension ==
    (pc = "returned" /\ arg.op = "load_test_file" /\ arg.file_path.exists) =>
        LET suffix == arg.file_path.suffix
            content == arg.file_path.content
        IN  /\ suffix \in {".json", ".JSON"} => ret = json_load(content)
            /\ suffix \in {".yaml", ".YAML", ".yml", ".Yml"} =>
                  ret = yaml_safe_load(content)
            /\ (\/ suffix \in {".json", ".JSON"} /\ content.syntax = "json"
                \/ suffix \in {".yaml", ".YAML", ".yml", ".Yml"}
                      /\ content.syntax = "yaml") =>
                  ret = Returned(content.data)
            /\ suffix \in {".txt", ""} =>
                  ret = [raised |-> UnsupportedFormat, value |-> <<>>]

C32_UnsupportedRaised ==
    /\ pc = "returned"
    /\ arg.op = "load_test_file"
    /\ arg.file_path.exists
    /\ arg.file_path.suffix = ".txt"
    /\ arg.file_path.content.syntax = "text"
    /\ ret.raised = UnsupportedFormat

\* ------------------------------------------------------------ the client
\* The client makes one call: an operation with its arguments.  A call of
\* load_config finds the file the client put at the path.
InitLib ==
    /\ NoRun
    /\ pc = "client"
    /\ \/ \E s \in Sentences : arg = [op |-> "parse", instruction |-> s]
       \/ \E t \in AssertionTypes, e \in EngineAnswers :
             arg = [op |-> "execute", type |-> t, engine |-> e]
       \/ \E i \in FallbackInstructions, m \in ModelAnswers :
             arg = [op |-> "translate_to_actions", natural_language |-> i,
                    model |-> m]
       \/ \E i \in MockInstructions :
             arg = [op |-> "mock_translate_to_actions",
                    natural_language |-> i]
       \/ \E c \in Configs : arg = [op |-> "save_config", config |-> c]
       \/ \E d \in Documents :
             arg = [op |-> "load_config",
                    file |-> [exists |-> TRUE, document |-> d]]
       \/ \E f \in {NoFile, EmptyFile} : arg = [op |-> "load_config", file |-> f]
       \/ \E p \in FilePaths : arg = [op |-> "load_test_file", file_path |-> p]
    /\ ret = None
    /\ file = IF arg.op = "load_config" THEN arg.file ELSE NoFile

NextLib ==
    \/ PM_parse
    \/ AE_execute
    \/ LLM_translate_to_actions
    \/ Mock_translate_to_actions
    \/ Cfg_save_config
    \/ Cfg_load_config
    \/ Run_load_test_file

SpecLib == InitLib /\ [][NextLib]_vars

====
